---- MODULE Spec2Model ----
(***************************************************************************)
(* Model of the data synchronisation and task orchestration code of the    *)
(* video-asset gallery: the useAppData hook (src/App.tsx, lines 1202-1594) *)
(* and the generation-task poller of AiGenerator                           *)
(* (src/components/UploadModal.tsx, lines 323-354).                        *)
(*                                                                         *)
(* The remote store (three tables), the object store and the external job  *)
(* API are modelled at their interface: every call is one atomic step on   *)
(* the remote side that either succeeds or returns an error.  Every await  *)
(* of the code is a point where another invocation may run.                *)
(***************************************************************************)
EXTENDS Integers, Sequences, FiniteSets, Bags, TLC

\* ------------------------------------------------------------------ bounds
SyncCalls == 1   \* handler invocations in one behaviour of SpecSync
RaceCalls == 2   \* handler invocations in one behaviour of SpecRace
PollTicks == 1   \* poll ticks in one behaviour of SpecPoll
UploadCalls == 1   \* addAssets calls in one behaviour of SpecUpload
ReuploadCalls == 2 \* addAssets calls in one behaviour of SpecReupload
MaxBatches == 2    \* batches in one addAssets call
MaxResults == 1    \* result files of one batch
OverlapTicks == 3   \* poll ticks in one behaviour of SpecOverlap
TimerTicks == 2   \* poll ticks in one behaviour of SpecTimer
ProxyCalls == 2   \* requests in one behaviour of SpecProxy
CategoryCalls == 2  \* handler invocations in one behaviour of SpecCategories
TaskCalls == 2      \* handler invocations in one behaviour of SpecTasks
PromoteCalls == 2   \* handler invocations in one behaviour of SpecPromote
GenerateCalls == 3  \* submissions in one behaviour of SpecGenerate
ToggleCalls == 3    \* toggleFavorite calls in one behaviour of SpecToggle
ReloadCalls == 2    \* refreshData calls in one behaviour of SpecReload

\* --------------------------------------------------------------- constants
NULL == "null"                 \* SQL null / JS null / undefined
Uncategorized == "Uncategorized"

CategoryTypes == {"actors", "movements", "performanceActors"}

\* ------------------------------------------------------------------- state
VARIABLES
    tblVideos,        \* remote table videos: set of rows
    tblCategories,    \* remote table categories: set of rows
    tblTasks,         \* remote table generation_tasks: set of rows
    bucket,           \* object store, bucket "videos": set of object paths
    runway,           \* external job API: job id -> status reported by GET
    nextId,           \* next server-assigned row id
    nextUuid,         \* next value of uuidv4()
    assets,           \* React state: assets
    categories,       \* React state: categories
    generationTasks,  \* React state: generationTasks
    loading,          \* React state: loading
    closure,          \* state captured by the callbacks of the last render
    fetches,          \* bag of in-flight fetchAllData invocations
    muts,             \* bag of in-flight optimistic mutations
    ticks,            \* bag of in-flight pollTasks invocations
    uploads,          \* bag of in-flight addAssets invocations
    calls,            \* number of handler invocations so far
    limit,            \* bound on calls, fixed by the initial state
    generator,        \* the AiGenerator view: mounted, and its active intervals
    proxy,            \* the proxy function api/runway: the request it is serving
    nFailed           \* history: number of mutations whose remote-store call failed

remote == <<tblVideos, tblCategories, tblTasks, bucket, runway, nextId, nextUuid>>
local  == <<assets, categories, generationTasks>>
procs  == <<fetches, muts, ticks, uploads>>
vars   == <<tblVideos, tblCategories, tblTasks, bucket, runway, nextId, nextUuid,
           assets, categories, generationTasks, loading, closure,
           fetches, muts, ticks, uploads, calls, limit, generator, proxy, nFailed>>

\* ----------------------------------------------------------------- helpers
Min(S) == CHOOSE x \in S : \A y \in S : x <= y
Max(S) == CHOOSE x \in S : \A y \in S : x >= y

\* An object path is a sequence of segments (userId, folder, file name); a URL is
\* the sequence of segments of its pathname.
PublicUrlPrefix == <<"storage", "v1", "object", "public", "videos">>

\* supabase.storage.from('videos').getPublicUrl(path).data.publicUrl
getPublicUrl(path) == PublicUrlPrefix \o path

\* positions of the segment "videos", i.e. of the separator '/videos/'
VideosAt(url) == {i \in 1..Len(url) : url[i] = "videos"}

\* the percent-encoding of a path segment by the URL parser: a space becomes
\* %20 (the segments in use that hold one are listed)
EncodeSegment(seg) ==
    CASE seg = "7-my char.png" -> "7-my%20char.png"
      [] OTHER -> seg

\* new URL(url).pathname
Pathname(url) == [i \in 1..Len(url) |-> EncodeSegment(url[i])]

\* new URL(url).pathname.split('/videos/')[1]: the segments between the first
\* separator and the next one (or the end)
PathOfUrl(url) ==
    LET pathname == Pathname(url)
        first == Min(VideosAt(pathname))
        later == {i \in VideosAt(pathname) : i > first}
        last  == IF later = {} THEN Len(pathname) ELSE Min(later) - 1
    IN  SubSeq(pathname, first + 1, last)

Truthy(s) == s # NULL /\ s # ""

\* in-flight invocations are kept in bags: two invocations in the same state
\* are interchangeable
Put(bag, e)  == bag (+) SetToBag({e})
Take(bag, e) == bag (-) SetToBag({e})
Step(bag, e, f) == Put(Take(bag, e), f)

\* a select that has not answered, answered with rows, or answered with an error
SelWait      == [st |-> "wait", rows |-> {}]
SelOk(rows)  == [st |-> "ok",   rows |-> rows]
SelErr       == [st |-> "err",  rows |-> {}]

\* ===================================================================
\* fetchAllData: reload of the three collections
\* ===================================================================
\* the synchronous head of fetchAllData: setLoading(true) and the three
\* selects are issued; `why` and `arg` name the call site that invoked it
fetchAllData(why, arg) ==
    /\ fetches' = Put(fetches, [why |-> why, arg |-> arg,
                                v |-> SelWait, c |-> SelWait, t |-> SelWait])
    /\ loading' = TRUE

\* the videos select answers
selectVideos(f) ==
    /\ f.v.st = "wait"
    /\ fetches' = Step(fetches, f, [f EXCEPT !.v = SelOk(tblVideos)])
    /\ UNCHANGED <<remote, local, loading, closure, muts, ticks, uploads, calls, limit, proxy, generator, nFailed>>

\* the categories select answers
selectCategories(f) ==
    /\ f.c.st = "wait"
    /\ fetches' = Step(fetches, f, [f EXCEPT !.c = SelOk(tblCategories)])
    /\ UNCHANGED <<remote, local, loading, closure, muts, ticks, uploads, calls, limit, proxy, generator, nFailed>>

\* the generation_tasks select answers
selectTasks(f) ==
    /\ f.t.st = "wait"
    /\ fetches' = Step(fetches, f, [f EXCEPT !.t = SelOk(tblTasks)])
    /\ UNCHANGED <<remote, local, loading, closure, muts, ticks, uploads, calls, limit, proxy, generator, nFailed>>

\* one of the three selects answers with an error
selectError(f) ==
    /\ \E s \in {"v", "c", "t"} :
          /\ f[s].st = "wait"
          /\ fetches' = Step(fetches, f, [f EXCEPT ![s] = SelErr])
    /\ UNCHANGED <<remote, local, loading, closure, muts, ticks, uploads, calls, limit, proxy, generator, nFailed>>

FetchAnswered(f) == f.v.st # "wait" /\ f.c.st # "wait" /\ f.t.st # "wait"
FetchFailed(f)   == f.v.st = "err" \/ f.c.st = "err" \/ f.t.st = "err"

\* a failed reload sets what it has read and keeps the rest
fetchAllDataDone_Partial(f) ==
    /\ FetchAnswered(f)
    /\ assets' = IF f.v.st = "err" THEN assets ELSE f.v.rows
    /\ categories' = IF f.c.st = "err" THEN categories ELSE f.c.rows
    /\ generationTasks' = IF f.t.st = "err" THEN generationTasks ELSE f.t.rows
    /\ loading' = FALSE
    /\ fetches' = Take(fetches, f)
    /\ UNCHANGED <<remote, closure, muts, ticks, uploads, calls, limit, proxy, generator, nFailed>>

\* Promise.all has resolved: the three setters, or the catch block, then finally
fetchAllDataDone(f) ==
    /\ FetchAnswered(f)
    /\ IF FetchFailed(f)
          THEN /\ assets' = {}
               /\ categories' = {}
               /\ generationTasks' = {}
          ELSE /\ assets' = f.v.rows
               /\ categories' = f.c.rows
               /\ generationTasks' = f.t.rows
    /\ loading' = FALSE
    /\ fetches' = Take(fetches, f)
    /\ UNCHANGED <<remote, closure, muts, ticks, uploads, calls, limit, proxy, generator, nFailed>>

\* refreshData, the hook's export of fetchAllData, invoked by a caller
refreshData ==
    /\ calls < limit
    /\ calls' = calls + 1
    /\ fetchAllData("refresh", 0)
    /\ UNCHANGED <<remote, local, closure, muts, ticks, uploads, limit, proxy, generator, nFailed>>

\* React re-renders: the callbacks are re-created over the current state
Rendered == [assets |-> assets, categories |-> categories, tasks |-> generationTasks]

\* an interval handle is known by the callback it runs, a pollTasks over the
\* task list of one render
Interval(tasks) == [tasks |-> tasks]

Generator(mounted, intervals) == [mounted |-> mounted, intervals |-> intervals]

\* the effect without its cleanup: every re-created pollTasks adds an interval
pollEffect_NoCleanup(tasks) ==
    IF ~generator.mounted \/ Interval(tasks) \in BagToSet(generator.intervals)
       THEN generator
       ELSE Generator(TRUE, Put(generator.intervals, Interval(tasks)))

\* the view's interval effect after a render with the task list tasks: a
\* re-created pollTasks has the cleanup clear the interval of the previous
\* callback before setInterval registers the new one
pollEffect(tasks) ==
    IF ~generator.mounted \/ Interval(tasks) \in BagToSet(generator.intervals)
       THEN generator
       ELSE Generator(TRUE, SetToBag({Interval(tasks)}))

Render ==
    /\ closure # Rendered
    /\ closure' = Rendered
    /\ generator' = pollEffect(generationTasks)
    /\ UNCHANGED <<remote, local, loading, procs, calls, limit, proxy, nFailed>>

\* ===================================================================
\* api/runway: the proxy in front of the external generation service
\* ===================================================================
\* A JSON value is written as its compact serialisation. Texts on the wire:
JsonCompact == "{\"id\":\"job-1\"}"
JsonSpaced  == "{ \"id\": \"job-1\" }"
HtmlText    == "<html>Bad Gateway</html>"
SyntaxError == "SyntaxError"

\* request.json() / runwayResponse.json(): the value of a JSON text, a
\* SyntaxError for any other text
JsonParse(text) ==
    CASE text = JsonCompact -> JsonCompact
      [] text = JsonSpaced  -> JsonCompact
      [] OTHER              -> SyntaxError

\* JSON.stringify(value)
JsonStringify(value) == value

\* the body {error: message}, known by its message
ErrorBody(message) == message

Request(method, taskId, body) == [method |-> method, taskId |-> taskId, body |-> body]

Response(status, body) == [status |-> status, body |-> body]

\* new Response(body, {status}) throws for a body with a null body status
NullBodyStatus(status) == status \in {204, 205, 304}

Proxy(pc, req, ext, resp, sent) ==
    [pc |-> pc, req |-> req, ext |-> ext, resp |-> resp, sent |-> sent]

\* ext is the set of answers received from the external service for req
Idle == Proxy("idle", NULL, {}, NULL, 0)

\* the function returns response
Return(request, ext, response) == proxy' = Proxy("done", request, ext, response, proxy.sent)

\* the function awaits fetch() to the external service
Forward(request) == proxy' = Proxy("upstream", request, {}, NULL, proxy.sent + 1)

\* the function is invoked and runs up to its first await of the external
\* service, or to its return
handler(request, runwayApiKey) ==
    /\ calls < limit
    /\ calls' = calls + 1
    /\ proxy.pc \in {"idle", "done"}
    /\ IF request.method = "OPTIONS"
          THEN Return(request, {}, Response(204, NULL))
       ELSE IF ~Truthy(runwayApiKey)
          THEN Return(request, {},
                      Response(500, ErrorBody("Runway API key not configured on the server.")))
       ELSE IF request.method = "POST"
          THEN IF JsonParse(request.body) = SyntaxError
                  THEN Return(request, {}, Response(500, ErrorBody(SyntaxError)))
                  ELSE Forward(request)
       ELSE IF ~Truthy(request.taskId)
          THEN Return(request, {},
                      Response(400, ErrorBody("taskId query parameter is required")))
       ELSE IF request.method \in {"GET", "DELETE"}
          THEN Forward(request)
       ELSE Return(request, {}, Response(405, ErrorBody("Method Not Allowed")))
    /\ UNCHANGED <<remote, local, loading, closure, procs, limit, generator, nFailed>>

\* the response built from the external answer ext: POST and GET parse the
\* body and serialise it again, DELETE passes the status with no body; an
\* exception is answered by the catch block
Relay(method, ext) ==
    IF method = "DELETE"
       THEN Response(ext.status, NULL)
    ELSE IF JsonParse(ext.body) = SyntaxError
       THEN Response(500, ErrorBody(SyntaxError))
    ELSE IF NullBodyStatus(ext.status)
       THEN Response(500, ErrorBody("TypeError"))
    ELSE Response(ext.status, JsonStringify(JsonParse(ext.body)))

\* the external service answers with ext
handler_answered(ext) ==
    /\ proxy.pc = "upstream"
    /\ Return(proxy.req, {ext}, Relay(proxy.req.method, ext))
    /\ UNCHANGED <<remote, local, loading, closure, procs, calls, limit, generator, nFailed>>

\* fetch() rejects: the catch block answers 500
handler_fetchErr ==
    /\ proxy.pc = "upstream"
    /\ Return(proxy.req, {}, Response(500, ErrorBody("fetch failed")))
    /\ UNCHANGED <<remote, local, loading, closure, procs, calls, limit, generator, nFailed>>

\* ===================================================================
\* optimistic mutations
\* ===================================================================
Mut(kind, pc, ids, cap) == [kind |-> kind, pc |-> pc, ids |-> ids, cap |-> cap]

StartMut(kind, pc, ids, cap) == muts' = Put(muts, Mut(kind, pc, ids, cap))

EndMut(m) == muts' = Take(muts, m)

GotoMut(m, pc) == muts' = Step(muts, m, [m EXCEPT !.pc = pc])

\* ids the view layer can hand to a handler
ShownAssetIds == {a.id : a \in closure.assets}
ShownTaskIds  == {t.id : t \in closure.tasks}

\* ---- toggleFavorite ------------------------------------------------
\* toggleFavorite that waits for the store before touching the local state
toggleFavorite_NoFlip(assetId) ==
    /\ calls < limit
    /\ calls' = calls + 1
    /\ LET asset == {a \in closure.assets : a.id = assetId} IN
       IF asset = {}
          THEN UNCHANGED <<assets, muts>>
          ELSE /\ assets' = assets
               /\ StartMut("toggleFavorite", "update", {assetId}, asset)
    /\ UNCHANGED <<remote, categories, generationTasks, loading, closure,
                   fetches, ticks, uploads, limit, proxy, generator, nFailed>>

toggleFavorite(assetId) ==
    /\ calls < limit
    /\ calls' = calls + 1
    /\ LET asset == {a \in closure.assets : a.id = assetId} IN
       IF asset = {}
          THEN UNCHANGED <<assets, muts>>
          ELSE /\ assets' = {IF a.id = assetId
                                THEN [a EXCEPT !.is_favorite = ~a.is_favorite]
                                ELSE a : a \in assets}
               /\ StartMut("toggleFavorite", "update", {assetId}, asset)
    /\ UNCHANGED <<remote, categories, generationTasks, loading, closure,
                   fetches, ticks, uploads, limit, proxy, generator, nFailed>>

\* the update of is_favorite is applied by the store
toggleFavorite_ok(m) ==
    /\ m.kind = "toggleFavorite" /\ m.pc = "update"
    /\ LET asset == CHOOSE a \in m.cap : TRUE IN
       tblVideos' = {IF v.id = asset.id
                        THEN [v EXCEPT !.is_favorite = ~asset.is_favorite]
                        ELSE v : v \in tblVideos}
    /\ EndMut(m)
    /\ UNCHANGED <<tblCategories, tblTasks, bucket, runway, nextId, nextUuid, local,
                   loading, closure, fetches, ticks, uploads, calls, limit, proxy, generator, nFailed>>

\* the update is rejected: "Revert on error"
toggleFavorite_err(m) ==
    /\ m.kind = "toggleFavorite" /\ m.pc = "update"
    /\ fetchAllData("toggleFavorite", Min(m.ids))
    /\ EndMut(m)
    /\ nFailed' = nFailed + 1
    /\ UNCHANGED <<remote, local, closure, ticks, uploads, calls, limit, proxy, generator>>

\* ---- deleteAsset, deleteMultipleAssets -------------------------------
deleteAsset(assetId) ==
    /\ calls < limit
    /\ calls' = calls + 1
    /\ LET assetToDelete == {a \in closure.assets : a.id = assetId} IN
       /\ assets' = {a \in assets : a.id # assetId}
       /\ StartMut("deleteAsset", "delete", {assetId}, assetToDelete)
    /\ UNCHANGED <<remote, categories, generationTasks, loading, closure,
                   fetches, ticks, uploads, limit, proxy, generator, nFailed>>

deleteMultipleAssets(assetIdsToDelete) ==
    /\ calls < limit
    /\ calls' = calls + 1
    /\ LET assetsToDelete == {a \in closure.assets : a.id \in assetIdsToDelete} IN
       /\ assets' = {a \in assets : a.id \notin assetIdsToDelete}
       /\ StartMut("deleteMultipleAssets", "delete", assetIdsToDelete, assetsToDelete)
    /\ UNCHANGED <<remote, categories, generationTasks, loading, closure,
                   fetches, ticks, uploads, limit, proxy, generator, nFailed>>

\* the path of one of the captured assets only
filePathsToDelete_First(cap) ==
    IF cap = {} THEN {}
    ELSE {(CHOOSE a \in cap : \A b \in cap : a.id <= b.id).file_path}

\* file paths of the captured assets: [assetToDelete.file_path] when truthy,
\* assetsToDelete.map(a => a.file_path).filter(Boolean)
filePathsToDelete(cap) == {a.file_path : a \in {x \in cap : x.file_path # <<>>}}

IsAssetDelete(m) == m.kind \in {"deleteAsset", "deleteMultipleAssets"}

\* delete().eq('id', assetId) / delete().in('id', assetIdsToDelete) succeeds
deleteAsset_ok(m) ==
    /\ IsAssetDelete(m) /\ m.pc = "delete"
    /\ tblVideos' = {v \in tblVideos : v.id \notin m.ids}
    /\ IF filePathsToDelete(m.cap) # {}
          THEN GotoMut(m, "remove")
          ELSE EndMut(m)
    /\ UNCHANGED <<tblCategories, tblTasks, bucket, runway, nextId, nextUuid, local,
                   loading, closure, fetches, ticks, uploads, calls, limit, proxy, generator, nFailed>>

\* deleteAsset_err with the catch block logging only
deleteAsset_err_NoReload(m) ==
    /\ IsAssetDelete(m) /\ m.pc = "delete"
    /\ EndMut(m)
    /\ nFailed' = nFailed + 1
    /\ UNCHANGED <<remote, local, loading, closure, fetches, ticks, uploads, calls, limit, proxy, generator>>

\* the rejected row delete is logged and the object removal goes on
deleteAsset_err_Remove(m) ==
    /\ IsAssetDelete(m) /\ m.pc = "delete"
    /\ fetchAllData(m.kind, 0)
    /\ IF filePathsToDelete(m.cap) # {}
          THEN GotoMut(m, "remove")
          ELSE EndMut(m)
    /\ nFailed' = nFailed + 1
    /\ UNCHANGED <<remote, local, closure, ticks, uploads, calls, limit, proxy, generator>>

\* the row delete is rejected: catch block
deleteAsset_err(m) ==
    /\ IsAssetDelete(m) /\ m.pc = "delete"
    /\ fetchAllData(m.kind, 0)
    /\ EndMut(m)
    /\ nFailed' = nFailed + 1
    /\ UNCHANGED <<remote, local, closure, ticks, uploads, calls, limit, proxy, generator>>

\* storage.remove(paths) succeeds
deleteAsset_removeOk(m) ==
    /\ IsAssetDelete(m) /\ m.pc = "remove"
    /\ bucket' = bucket \ filePathsToDelete(m.cap)
    /\ EndMut(m)
    /\ UNCHANGED <<tblVideos, tblCategories, tblTasks, runway, nextId, nextUuid, local,
                   loading, closure, fetches, ticks, uploads, calls, limit, proxy, generator, nFailed>>

\* storage.remove(paths) fails: logged only
deleteAsset_removeErr(m) ==
    /\ IsAssetDelete(m) /\ m.pc = "remove"
    /\ EndMut(m)
    /\ UNCHANGED <<remote, local, loading, closure, fetches, ticks, uploads,
                   calls, limit, proxy, generator, nFailed>>

\* ---- updateAsset ---------------------------------------------------
\* the row after update(updateData).eq('id', id): every field of updatedAsset
\* but id, created_at, file_path and video_url
ApplyUpdateData(v, updatedAsset) ==
    [updatedAsset EXCEPT !.id = v.id, !.file_path = v.file_path, !.video_url = v.video_url]

\* updateAsset that leaves the local collection to the store's answer
updateAsset_Wait(updatedAsset) ==
    /\ calls < limit
    /\ calls' = calls + 1
    /\ assets' = assets
    /\ StartMut("updateAsset", "update", {updatedAsset.id}, {updatedAsset})
    /\ UNCHANGED <<remote, categories, generationTasks, loading, closure,
                   fetches, ticks, uploads, limit, proxy, generator, nFailed>>

updateAsset(updatedAsset) ==
    /\ calls < limit
    /\ calls' = calls + 1
    /\ assets' = {IF a.id = updatedAsset.id THEN updatedAsset ELSE a : a \in assets}
    /\ StartMut("updateAsset", "update", {updatedAsset.id}, {updatedAsset})
    /\ UNCHANGED <<remote, categories, generationTasks, loading, closure,
                   fetches, ticks, uploads, limit, proxy, generator, nFailed>>

updateAsset_ok(m) ==
    /\ m.kind = "updateAsset" /\ m.pc = "update"
    /\ LET updatedAsset == CHOOSE a \in m.cap : TRUE IN
       tblVideos' = {IF v.id = updatedAsset.id THEN ApplyUpdateData(v, updatedAsset)
                                              ELSE v : v \in tblVideos}
    /\ EndMut(m)
    /\ UNCHANGED <<tblCategories, tblTasks, bucket, runway, nextId, nextUuid, local,
                   loading, closure, fetches, ticks, uploads, calls, limit, proxy, generator, nFailed>>

updateAsset_err(m) ==
    /\ m.kind = "updateAsset" /\ m.pc = "update"
    /\ fetchAllData("updateAsset", Min(m.ids))
    /\ EndMut(m)
    /\ nFailed' = nFailed + 1
    /\ UNCHANGED <<remote, local, closure, ticks, uploads, calls, limit, proxy, generator>>

NoResp == [status |-> NULL, uri |-> NULL, error |-> NULL]

\* ---- deleteGenerationTask ------------------------------------------
NoUrl == <<>>

\* the cancel is sent for every task that has a job id
NeedsCancel_AnyStatus(cap) == \E t \in cap : Truthy(t.runway_task_id)

\* taskToDelete?.runway_task_id && (status === 'PENDING' || status === 'RUNNING')
NeedsCancel(cap) ==
    \E t \in cap : Truthy(t.runway_task_id) /\ t.status \in {"PENDING", "RUNNING"}

\* [input_character_url, input_reference_video_url].filter(Boolean).map(path of url)
pathsToDelete(cap) ==
    UNION {{PathOfUrl(u) : u \in {t.input_character_url, t.input_reference_video_url} \ {NoUrl}}
           : t \in cap}

deleteGenerationTask(taskId) ==
    /\ calls < limit
    /\ calls' = calls + 1
    /\ LET taskToDelete == {t \in closure.tasks : t.id = taskId} IN
       /\ generationTasks' = {t \in generationTasks : t.id # taskId}
       /\ StartMut("deleteGenerationTask",
                   IF NeedsCancel(taskToDelete) THEN "cancel" ELSE "delete",
                   {taskId}, taskToDelete)
    /\ UNCHANGED <<remote, assets, categories, loading, closure,
                   fetches, ticks, uploads, limit, proxy, generator, nFailed>>

\* answers of DELETE /api/runway?taskId=...: 204, 404, another status, or the
\* fetch throws; only a 204 has cancelled the job
CancelOutcomes == {"204", "404", "500", "throw"}

deleteGenerationTask_cancel(m) ==
    /\ m.kind = "deleteGenerationTask" /\ m.pc = "cancel"
    /\ \E outcome \in CancelOutcomes :
          LET job == (CHOOSE t \in m.cap : TRUE).runway_task_id IN
          runway' = IF outcome = "204" /\ job \in DOMAIN runway
                       THEN [runway EXCEPT ![job] = "gone"]
                       ELSE runway
    /\ GotoMut(m, "delete")
    /\ UNCHANGED <<tblVideos, tblCategories, tblTasks, bucket, nextId, nextUuid, local,
                   loading, closure, fetches, ticks, uploads, calls, limit, proxy, generator, nFailed>>

AfterTaskDelete(m) ==
    IF pathsToDelete(m.cap) # {}
       THEN GotoMut(m, "remove")
       ELSE EndMut(m)

\* delete().eq('id', taskId) succeeds
deleteGenerationTask_ok(m) ==
    /\ m.kind = "deleteGenerationTask" /\ m.pc = "delete"
    /\ tblTasks' = {t \in tblTasks : t.id \notin m.ids}
    /\ AfterTaskDelete(m)
    /\ UNCHANGED <<tblVideos, tblCategories, bucket, runway, nextId, nextUuid, local,
                   loading, closure, fetches, ticks, uploads, calls, limit, proxy, generator, nFailed>>

\* the row delete is rejected: "Revert UI on error", then the clean-up goes on
deleteGenerationTask_err(m) ==
    /\ m.kind = "deleteGenerationTask" /\ m.pc = "delete"
    /\ fetchAllData("deleteGenerationTask", Min(m.ids))
    /\ AfterTaskDelete(m)
    /\ nFailed' = nFailed + 1
    /\ UNCHANGED <<remote, local, closure, ticks, uploads, calls, limit, proxy, generator>>

\* storage.remove(pathsToDelete): its outcome is not inspected
deleteGenerationTask_remove(m) ==
    /\ m.kind = "deleteGenerationTask" /\ m.pc = "remove"
    /\ \E ok \in BOOLEAN :
          bucket' = IF ok THEN bucket \ pathsToDelete(m.cap) ELSE bucket
    /\ EndMut(m)
    /\ UNCHANGED <<tblVideos, tblCategories, tblTasks, runway, nextId, nextUuid, local,
                   loading, closure, fetches, ticks, uploads, calls, limit, proxy, generator, nFailed>>

\* ===================================================================
\* pollTasks: one tick of the generation-task poller
\* ===================================================================
\* String.prototype.toUpperCase / toLowerCase over the status vocabulary
ToUpperCase(s) ==
    CASE s \in {"pending", "PENDING"}     -> "PENDING"
      [] s \in {"running", "RUNNING"}     -> "RUNNING"
      [] s \in {"succeeded", "SUCCEEDED"} -> "SUCCEEDED"
      [] s \in {"failed", "FAILED"}       -> "FAILED"
      [] s \in {"uploading", "UPLOADING"} -> "UPLOADING"
      [] s \in {"archived", "ARCHIVED"}   -> "ARCHIVED"
      [] OTHER -> s

ToLowerCase(s) ==
    CASE s \in {"pending", "PENDING"}     -> "pending"
      [] s \in {"running", "RUNNING"}     -> "running"
      [] s \in {"succeeded", "SUCCEEDED"} -> "succeeded"
      [] s \in {"failed", "FAILED"}       -> "failed"
      [] s \in {"uploading", "UPLOADING"} -> "uploading"
      [] s \in {"archived", "ARCHIVED"}   -> "archived"
      [] OTHER -> s

\* the list order of tasks (created_at descending, new tasks prepended):
\* the set as a sequence, newest id first
RECURSIVE NewestFirst(_)
NewestFirst(S) ==
    IF S = {} THEN <<>>
    ELSE LET t == CHOOSE x \in S : \A y \in S : x.id >= y.id
         IN  <<t>> \o NewestFirst(S \ {t})

\* the body of GET /api/runway?taskId=... for a job in the given state
OutputUri    == "https://x/out.mp4"
RunwayError  == "generation failed"
Report(st) ==
    [status |-> st,
     uri    |-> IF st = "succeeded" THEN OutputUri ELSE NULL,
     error  |-> IF st = "failed" THEN RunwayError ELSE NULL]

\* messages of the exceptions getTaskStatus can throw: the fetch rejects, or
\* handleApiResponse throws on a response that is not ok
FetchRejected == "Failed to fetch"
HttpError     == "HTTP error! status: 404"

Tick(pc, queue, resp, msg) == [pc |-> pc, queue |-> queue, resp |-> resp, msg |-> msg]

\* the for loop reaches its next iteration: tasks without runway_task_id are
\* skipped (continue), the GET of the first other task is issued
RECURSIVE Pollable(_)
Pollable(queue) ==
    IF queue = <<>> THEN <<>>
    ELSE IF Truthy(Head(queue).runway_task_id) THEN queue
    ELSE Pollable(Tail(queue))

\* the tick goes on with the rest of its list, or returns
Continue(k, rest) ==
    IF Pollable(rest) = <<>>
       THEN ticks' = Take(ticks, k)
       ELSE ticks' = Step(ticks, k, Tick("get", Pollable(rest), NoResp, NULL))

\* an active interval fires: its pollTasks runs up to its first await
pollTasks ==
    /\ calls < limit
    /\ calls' = calls + 1
    /\ \E interval \in BagToSet(generator.intervals) :
          LET tasksToPoll == {t \in interval.tasks : t.status \in {"PENDING", "RUNNING"}}
              queue == Pollable(NewestFirst(tasksToPoll))
          IN  /\ queue # <<>>
              /\ ticks' = Put(ticks, Tick("get", queue, NoResp, NULL))
    /\ UNCHANGED <<remote, local, loading, closure, fetches, muts, uploads, limit, proxy, generator, nFailed>>

\* the payload with the status as reported
updatePayload_AsReported(runwayTask) ==
    [status |-> runwayTask.status,
     output_video_url |-> IF Truthy(runwayTask.uri) THEN runwayTask.uri ELSE NULL,
     error_message |-> IF Truthy(runwayTask.error) THEN runwayTask.error ELSE NULL]

\* the update payload of a changed status
updatePayload(runwayTask) ==
    [status |-> ToUpperCase(runwayTask.status),
     output_video_url |-> IF Truthy(runwayTask.uri) THEN runwayTask.uri ELSE NULL,
     error_message |-> IF Truthy(runwayTask.error) THEN runwayTask.error ELSE NULL]

\* getTaskStatus answers with the job's state; the status is compared with the
\* task's status in the tick's list
pollTasks_status(k) ==
    /\ k.pc = "get"
    /\ LET task == Head(k.queue)
           runwayTask == Report(runway[task.runway_task_id])
       IN  /\ runway[task.runway_task_id] # "gone"
           /\ IF ToLowerCase(task.status) # runwayTask.status
                 THEN ticks' = Step(ticks, k, Tick("update", k.queue, runwayTask, NULL))
                 ELSE Continue(k, Tail(k.queue))
    /\ UNCHANGED <<remote, local, loading, closure, fetches, muts, uploads, calls, limit, proxy, generator, nFailed>>

\* getTaskStatus throws: the catch block issues the FAILED update
pollTasks_throw(k) ==
    /\ k.pc = "get"
    /\ \E msg \in IF runway[Head(k.queue).runway_task_id] = "gone"
                    THEN {HttpError, FetchRejected} ELSE {FetchRejected} :
          ticks' = Step(ticks, k, Tick("failed", k.queue, NoResp, msg))
    /\ UNCHANGED <<remote, local, loading, closure, fetches, muts, uploads, calls, limit, proxy, generator, nFailed>>

\* update(updatePayload).eq('id', task.id) on the store
UpdateTask(id, payload) ==
    {IF t.id = id THEN [t EXCEPT !.status = payload.status,
                                 !.output_video_url = payload.output_video_url,
                                 !.error_message = payload.error_message]
                  ELSE t : t \in tblTasks}

\* the update of the changed status succeeds: refreshData()
pollTasks_updateOk(k) ==
    /\ k.pc = "update"
    /\ tblTasks' = UpdateTask(Head(k.queue).id, updatePayload(k.resp))
    /\ fetchAllData("pollTasks", Head(k.queue).id)
    /\ Continue(k, Tail(k.queue))
    /\ UNCHANGED <<tblVideos, tblCategories, bucket, runway, nextId, nextUuid, local,
                   closure, muts, uploads, calls, limit, proxy, generator, nFailed>>

\* the update is rejected: no refresh
pollTasks_updateErr(k) ==
    /\ k.pc = "update"
    /\ Continue(k, Tail(k.queue))
    /\ UNCHANGED <<remote, local, loading, closure, fetches, muts, uploads, calls, limit, proxy, generator, nFailed>>

\* the exception leaves the loop: the tick ends after the FAILED update
pollTasks_failed_Abort(k) ==
    /\ k.pc = "failed"
    /\ \E ok \in BOOLEAN :
          tblTasks' = IF ok THEN {IF t.id = Head(k.queue).id
                                    THEN [t EXCEPT !.status = "FAILED", !.error_message = k.msg]
                                    ELSE t : t \in tblTasks}
                           ELSE tblTasks
    /\ fetchAllData("pollTasks", Head(k.queue).id)
    /\ ticks' = Take(ticks, k)
    /\ UNCHANGED <<tblVideos, tblCategories, bucket, runway, nextId, nextUuid, local,
                   closure, muts, uploads, calls, limit, proxy, generator, nFailed>>

\* the catch block's update { status: 'FAILED', error_message } returns (its
\* error is not inspected), then refreshData()
pollTasks_failed(k) ==
    /\ k.pc = "failed"
    /\ \E ok \in BOOLEAN :
          tblTasks' = IF ok THEN {IF t.id = Head(k.queue).id
                                    THEN [t EXCEPT !.status = "FAILED", !.error_message = k.msg]
                                    ELSE t : t \in tblTasks}
                           ELSE tblTasks
    /\ fetchAllData("pollTasks", Head(k.queue).id)
    /\ Continue(k, Tail(k.queue))
    /\ UNCHANGED <<tblVideos, tblCategories, bucket, runway, nextId, nextUuid, local,
                   closure, muts, uploads, calls, limit, proxy, generator, nFailed>>

\* the external job makes progress on its own
RunwayNext == [pending |-> {"running"}, running |-> {"succeeded", "failed"}]

runwayProgress ==
    /\ \E job \in DOMAIN runway :
          /\ runway[job] \in DOMAIN RunwayNext
          /\ \E st \in RunwayNext[runway[job]] : runway' = [runway EXCEPT ![job] = st]
    /\ UNCHANGED <<tblVideos, tblCategories, tblTasks, bucket, nextId, nextUuid, local,
                   loading, closure, procs, calls, limit, proxy, generator, nFailed>>

\* ===================================================================
\* addAssets: ingestion of a list of performance batches
\* ===================================================================
\* a staged source file with its result files (types.ts PerformanceBatch); tags
\* is the comma-separated tag text
StagedResultFile(file, actor) == [file |-> file, actor_name |-> actor]

PerformanceBatch(file, performer, movement, take, tags, results) ==
    [sourceFile  |-> [file |-> file, actor_name |-> "", movement_type |-> movement,
                      performance_actor |-> performer, take_number |-> take, tags |-> tags],
     resultFiles |-> results]

\* existingCategoryMap[type]: the names of the captured categories of a kind
existingCategoryMap(cats) ==
    [type \in CategoryTypes |-> {c.name : c \in {x \in cats : x.type = type}}]

HasKey(newCategories, key) == \E i \in 1..Len(newCategories) : newCategories[i].key = key

\* the name is entered whether or not its key is already in the map
addCategoryIfNeeded_NoDedup(newCategories, existing, name, type) ==
    IF Truthy(name) /\ name \notin existing[type]
       THEN Append(newCategories, [key |-> type \o "-" \o name, name |-> name, type |-> type])
       ELSE newCategories

\* newCategories is the Map in insertion order
addCategoryIfNeeded(newCategories, existing, name, type) ==
    IF Truthy(name) /\ name \notin existing[type]
       THEN LET key == type \o "-" \o name
            IN  IF ~HasKey(newCategories, key)
                   THEN Append(newCategories, [key |-> key, name |-> name, type |-> type])
                   ELSE newCategories
       ELSE newCategories

RECURSIVE ResultCategories(_, _, _)
ResultCategories(newCategories, existing, results) ==
    IF results = <<>> THEN newCategories
    ELSE ResultCategories(
            addCategoryIfNeeded(newCategories, existing, Head(results).actor_name, "actors"),
            existing, Tail(results))

\* the category part of the loop over the batches
RECURSIVE BatchCategories(_, _, _)
BatchCategories(newCategories, existing, batches) ==
    IF batches = <<>> THEN newCategories
    ELSE LET source == Head(batches).sourceFile
             n1 == addCategoryIfNeeded(newCategories, existing, source.performance_actor, "performanceActors")
             n2 == addCategoryIfNeeded(n1, existing, source.movement_type, "movements")
             n3 == addCategoryIfNeeded(n2, existing, source.performance_actor, "actors")
         IN  BatchCategories(ResultCategories(n3, existing, Head(batches).resultFiles),
                             existing, Tail(batches))

\* a text is the sequence of its characters
Whitespace == {" "}

\* String.prototype.split(','): the pieces between the commas, from left to
\* right; `piece` is the piece being read
RECURSIVE SplitFrom(_, _)
SplitFrom(text, piece) ==
    IF text = <<>> THEN <<piece>>
    ELSE IF Head(text) = "," THEN <<piece>> \o SplitFrom(Tail(text), <<>>)
    ELSE SplitFrom(Tail(text), Append(piece, Head(text)))

Split(text) == SplitFrom(text, <<>>)

RECURSIVE TrimStart(_)
TrimStart(text) ==
    IF text # <<>> /\ Head(text) \in Whitespace THEN TrimStart(Tail(text)) ELSE text

RECURSIVE TrimEnd(_)
TrimEnd(text) ==
    IF text # <<>> /\ text[Len(text)] \in Whitespace
       THEN TrimEnd(SubSeq(text, 1, Len(text) - 1)) ELSE text

\* String.prototype.trim
Trim(text) == TrimEnd(TrimStart(text))

\* the pieces as split, neither trimmed nor filtered
parseTags_SplitOnly(tags) == Split(tags)

NonEmpty(text) == text # <<>>

\* tags.split(',').map(tag => tag.trim()).filter(Boolean)
parseTags(tags) ==
    LET pieces == Split(tags)
    IN  SelectSeq([i \in 1..Len(pieces) |-> Trim(pieces[i])], NonEmpty)

\* the staged files of the list in upload order: each source, then its results
RECURSIVE StagedFiles(_)
StagedFiles(batches) ==
    IF batches = <<>> THEN <<>>
    ELSE LET source == Head(batches).sourceFile
             results == Head(batches).resultFiles
         IN  <<[file |-> source.file, actor_name |-> source.performance_actor, source |-> source]>>
             \o [i \in 1..Len(results) |->
                    [file |-> results[i].file, actor_name |-> results[i].actor_name, source |-> source]]
             \o StagedFiles(Tail(batches))

\* `${userId}/${uuidv4()}-${file.name}`
FilePath(user, uuid, name) == <<user, ToString(uuid) \o "-" \o name>>

\* newAssetsData: one row per staged file, the i-th with the i-th fresh uuid
newAssetsData(user, batches, uuid) ==
    LET staged == StagedFiles(batches)
    IN  [i \in 1..Len(staged) |->
           [file_path         |-> FilePath(user, uuid + i - 1, staged[i].file),
            actor_name        |-> staged[i].actor_name,
            movement_type     |-> staged[i].source.movement_type,
            performance_actor |-> staged[i].source.performance_actor,
            take_number       |-> staged[i].source.take_number,
            tags              |-> parseTags(staged[i].source.tags),
            is_favorite       |-> FALSE]]

Upload(pc, id, batches, cats, rows) ==
    [pc |-> pc, id |-> id, batches |-> batches, cats |-> cats, rows |-> rows]

\* the call of addAssets up to its first await: the category insert if there
\* are new categories, the uploads otherwise
addAssets(user, batches) ==
    /\ Truthy(user)
    /\ calls < limit
    /\ calls' = calls + 1
    /\ loading' = TRUE
    /\ LET newCategories == BatchCategories(<<>>, existingCategoryMap(closure.categories), batches)
           rows == newAssetsData(user, batches, nextUuid)
       IN  /\ nextUuid' = nextUuid + Len(rows)
           /\ uploads' = Put(uploads,
                  Upload(IF Len(newCategories) > 0 THEN "categories" ELSE "upload",
                         nextUuid, batches, newCategories, rows))
    /\ UNCHANGED <<tblVideos, tblCategories, tblTasks, bucket, runway, nextId, local,
                   closure, fetches, muts, ticks, limit, proxy, generator, nFailed>>

\* the category insert succeeds: the uploads are issued
addAssets_categoriesOk(u) ==
    /\ u.pc = "categories"
    /\ tblCategories' = tblCategories \cup
          {[id |-> nextId + i - 1, type |-> u.cats[i].type, name |-> u.cats[i].name] :
              i \in 1..Len(u.cats)}
    /\ nextId' = nextId + Len(u.cats)
    /\ uploads' = Step(uploads, u, [u EXCEPT !.pc = "upload"])
    /\ UNCHANGED <<tblVideos, tblTasks, bucket, runway, nextUuid, local, loading,
                   closure, fetches, muts, ticks, calls, limit, proxy, generator, nFailed>>

\* the catch block alone: the error is logged and the flag left as it is
addAssets_thrown_NoFinally(u) ==
    /\ loading' = loading
    /\ uploads' = Take(uploads, u)
    /\ UNCHANGED <<remote, local, closure, fetches, muts, ticks, calls, limit, proxy, generator, nFailed>>

\* the catch and finally blocks: the error is logged, setLoading(false)
addAssets_thrown(u) ==
    /\ loading' = FALSE
    /\ uploads' = Take(uploads, u)
    /\ UNCHANGED <<remote, local, closure, fetches, muts, ticks, calls, limit, proxy, generator, nFailed>>

\* the error of the category insert is not thrown: the uploads are issued
addAssets_categoriesErr_Continue(u) ==
    /\ u.pc = "categories"
    /\ uploads' = Step(uploads, u, [u EXCEPT !.pc = "upload"])
    /\ UNCHANGED <<remote, local, loading, closure, fetches, muts, ticks,
                   calls, limit, proxy, generator, nFailed>>

\* the category insert fails: throw catError
addAssets_categoriesErr(u) ==
    /\ u.pc = "categories"
    /\ addAssets_thrown(u)

\* an upload that returned an error is thrown
addAssets_uploaded_Checked(u) ==
    /\ u.pc = "upload"
    /\ LET paths == {u.rows[i].file_path : i \in 1..Len(u.rows)} IN
       \E stored \in SUBSET paths :
          /\ bucket' = bucket \cup stored
          /\ IF stored = paths
                THEN /\ uploads' = Step(uploads, u, [u EXCEPT !.pc = "insert"])
                     /\ loading' = loading
                ELSE /\ uploads' = Take(uploads, u)
                     /\ loading' = FALSE
    /\ UNCHANGED <<tblVideos, tblCategories, tblTasks, runway, nextId, nextUuid, local,
                   closure, fetches, muts, ticks, calls, limit, proxy, generator, nFailed>>

\* Promise.all of the uploads resolves; the result of no upload is inspected
addAssets_uploaded(u) ==
    /\ u.pc = "upload"
    /\ \E stored \in SUBSET {u.rows[i].file_path : i \in 1..Len(u.rows)} :
          bucket' = bucket \cup stored
    /\ uploads' = Step(uploads, u, [u EXCEPT !.pc = "insert"])
    /\ UNCHANGED <<tblVideos, tblCategories, tblTasks, runway, nextId, nextUuid, local,
                   loading, closure, fetches, muts, ticks, calls, limit, proxy, generator, nFailed>>

\* the batch insert of the rows with their public URLs succeeds: await fetchAllData()
addAssets_insertOk(u) ==
    /\ u.pc = "insert"
    /\ tblVideos' = tblVideos \cup
          {[id |-> nextId + i - 1,
            file_path |-> u.rows[i].file_path,
            video_url |-> getPublicUrl(u.rows[i].file_path),
            actor_name |-> u.rows[i].actor_name,
            movement_type |-> u.rows[i].movement_type,
            performance_actor |-> u.rows[i].performance_actor,
            take_number |-> u.rows[i].take_number,
            tags |-> u.rows[i].tags,
            is_favorite |-> u.rows[i].is_favorite] : i \in 1..Len(u.rows)}
    /\ nextId' = nextId + Len(u.rows)
    /\ fetchAllData("addAssets", u.id)
    /\ uploads' = Step(uploads, u, [u EXCEPT !.pc = "reload"])
    /\ UNCHANGED <<tblCategories, tblTasks, bucket, runway, nextUuid, local,
                   closure, muts, ticks, calls, limit, proxy, generator, nFailed>>

\* the collections are reloaded after a failed batch insert as well
addAssets_insertErr_Reload(u) ==
    /\ u.pc = "insert"
    /\ fetchAllData("addAssets", u.id)
    /\ uploads' = Step(uploads, u, [u EXCEPT !.pc = "reload"])
    /\ UNCHANGED <<remote, local, closure, muts, ticks, calls, limit, proxy, generator, nFailed>>

\* the batch insert fails: throw insertError
addAssets_insertErr(u) ==
    /\ u.pc = "insert"
    /\ addAssets_thrown(u)

\* the awaited fetchAllData has returned: finally setLoading(false)
addAssets_done(u) ==
    /\ u.pc = "reload"
    /\ ~\E f \in BagToSet(fetches) : f.why = "addAssets" /\ f.arg = u.id
    /\ loading' = FALSE
    /\ uploads' = Take(uploads, u)
    /\ UNCHANGED <<remote, local, closure, fetches, muts, ticks, calls, limit, proxy, generator, nFailed>>

\* ===================================================================
\* saveGeneratedVideoToGallery: promotion of a finished task to an asset
\* ===================================================================
\* the columns of the table videos (database.types.ts, videos.Insert)
VideoColumns ==
    {"id", "created_at", "file_path", "actor_name", "movement_type", "performance_actor",
     "take_number", "video_url", "thumbnail_url", "tags", "resolution", "file_size",
     "is_favorite"}

\* dimensions the probe of the fetched video can measure
Dimensions == {[width |-> 720, height |-> 1280]}

\* `${performance_actor}_${movement_type}_${finalMetadata.actor_name}.mp4`
Filename(task, finalMetadata) ==
    task.initial_metadata.performance_actor \o "_" \o task.initial_metadata.movement_type
       \o "_" \o finalMetadata.actor_name \o ".mp4"

\* record merge: the fields of `over` replace those of `base` ({...base, ...over})
Spread(base, over) ==
    [k \in DOMAIN base \cup DOMAIN over |-> IF k \in DOMAIN over THEN over[k] ELSE base[k]]

\* newAssetData
newAssetData(task, finalMetadata, filePath, dimensions) ==
    Spread(task.initial_metadata,
           [actor_name  |-> finalMetadata.actor_name,
            tags        |-> finalMetadata.tags,
            file_path   |-> filePath,
            video_url   |-> getPublicUrl(filePath),
            file_size   |-> "1.00 MB",
            resolution  |-> dimensions,
            is_favorite |-> FALSE])

\* the state of one promotion: the task and metadata it was called with, the
\* measured dimensions and the path of the uploaded file
Promotion(user, task, finalMetadata, dimensions, filePath) ==
    [user |-> user, task |-> task, meta |-> finalMetadata, resolution |-> dimensions, file_path |-> filePath]

\* the task's card offers the promotion whatever its status
CanSave_UrlOnly(task) == Truthy(task.output_video_url)

\* TaskItem: task.status === 'SUCCEEDED' && task.output_video_url
CanSave(task) == task.status = "SUCCEEDED" /\ Truthy(task.output_video_url)

saveGeneratedVideoToGallery(user, task, finalMetadata) ==
    /\ calls < limit
    /\ calls' = calls + 1
    /\ StartMut("saveGeneratedVideoToGallery",
                IF ~Truthy(user) \/ ~Truthy(task.output_video_url) THEN "rejected" ELSE "fetch",
                {task.id}, Promotion(user, task, finalMetadata, NULL, <<>>))
    /\ UNCHANGED <<remote, local, loading, closure, fetches, ticks, uploads,
                   limit, proxy, generator, nFailed>>

\* the output video has been fetched and probed: the upload is issued under a
\* fresh path
saveGeneratedVideoToGallery_fetched(m) ==
    /\ m.kind = "saveGeneratedVideoToGallery" /\ m.pc = "fetch"
    /\ \E dimensions \in Dimensions :
          muts' = Step(muts, m,
                       [m EXCEPT !.pc = "upload",
                                 !.cap = Promotion(m.cap.user, m.cap.task, m.cap.meta, dimensions,
                                            FilePath(m.cap.user, nextUuid,
                                                     Filename(m.cap.task, m.cap.meta)))])
    /\ nextUuid' = nextUuid + 1
    /\ UNCHANGED <<tblVideos, tblCategories, tblTasks, bucket, runway, nextId, local,
                   loading, closure, fetches, ticks, uploads, calls, limit, proxy, generator, nFailed>>

\* the catch block also discards the task's row
saveGeneratedVideoToGallery_thrown_Discard(m) ==
    /\ EndMut(m)
    /\ nFailed' = nFailed + 1
    /\ tblTasks' = {t \in tblTasks : t.id \notin m.ids}
    /\ UNCHANGED <<tblVideos, tblCategories, bucket, runway, nextId, nextUuid, local,
                   loading, closure, fetches, ticks, uploads, calls, limit, proxy, generator>>

\* the catch block: the error is logged
saveGeneratedVideoToGallery_thrown(m) ==
    /\ EndMut(m)
    /\ nFailed' = nFailed + 1
    /\ UNCHANGED <<remote, local, loading, closure, fetches, ticks, uploads,
                   calls, limit, proxy, generator>>

\* the fetch rejects or answers with a status that is not ok
saveGeneratedVideoToGallery_fetchErr(m) ==
    /\ m.kind = "saveGeneratedVideoToGallery" /\ m.pc = "fetch"
    /\ saveGeneratedVideoToGallery_thrown(m)

\* storage.upload succeeds: the row is handed to the insert
saveGeneratedVideoToGallery_uploaded(m) ==
    /\ m.kind = "saveGeneratedVideoToGallery" /\ m.pc = "upload"
    /\ bucket' = bucket \cup {m.cap.file_path}
    /\ GotoMut(m, "insert")
    /\ UNCHANGED <<tblVideos, tblCategories, tblTasks, runway, nextId, nextUuid, local,
                   loading, closure, fetches, ticks, uploads, calls, limit, proxy, generator, nFailed>>

\* storage.upload returns an error: throw uploadError
saveGeneratedVideoToGallery_uploadErr(m) ==
    /\ m.kind = "saveGeneratedVideoToGallery" /\ m.pc = "upload"
    /\ saveGeneratedVideoToGallery_thrown(m)

\* the insert is accepted: await deleteGenerationTask(task.id), whose
\* synchronous head removes the task locally and issues its first call
saveGeneratedVideoToGallery_inserted(m) ==
    /\ m.kind = "saveGeneratedVideoToGallery" /\ m.pc = "insert"
    /\ tblVideos' = tblVideos \cup
          {Spread(newAssetData(m.cap.task, m.cap.meta, m.cap.file_path, m.cap.resolution),
                  [id |-> nextId])}
    /\ nextId' = nextId + 1
    /\ LET taskToDelete == {t \in closure.tasks : t.id = m.cap.task.id} IN
       /\ generationTasks' = {t \in generationTasks : t.id # m.cap.task.id}
       /\ muts' = Put(Step(muts, m, [m EXCEPT !.pc = "deleting"]),
                      Mut("deleteGenerationTask",
                          IF NeedsCancel(taskToDelete) THEN "cancel" ELSE "delete",
                          {m.cap.task.id}, taskToDelete))
    /\ UNCHANGED <<tblCategories, tblTasks, bucket, runway, nextUuid, assets, categories,
                   loading, closure, fetches, ticks, uploads, calls, limit, proxy, generator, nFailed>>

\* the insert is rejected: throw insertError
saveGeneratedVideoToGallery_insertErr(m) ==
    /\ m.kind = "saveGeneratedVideoToGallery" /\ m.pc = "insert"
    /\ saveGeneratedVideoToGallery_thrown(m)

\* the awaited deleteGenerationTask has returned (no deletion of the task is
\* in flight any more): await fetchAllData()
saveGeneratedVideoToGallery_deleted(m) ==
    /\ m.kind = "saveGeneratedVideoToGallery" /\ m.pc = "deleting"
    /\ ~\E d \in BagToSet(muts) : d.kind = "deleteGenerationTask" /\ d.ids = m.ids
    /\ fetchAllData(m.kind, m.cap.task.id)
    /\ EndMut(m)
    /\ UNCHANGED <<remote, local, closure, ticks, uploads, calls, limit, proxy, generator, nFailed>>

\* ===================================================================
\* handleStartGeneration: submission of a generation job
\* ===================================================================
\* the id the job API gives to its n-th job
JobId(n) ==
    CASE n = 1 -> "job-1"
      [] n = 2 -> "job-2"
      [] n = 3 -> "job-3"
      [] OTHER -> "job-4"

\* `${userId}/${folder}/${uuidv4()}-${file.name}`
InputPath(user, uuid, name) == <<user, "generation_inputs", ToString(uuid) \o "-" \o name>>

\* the form of the generator: the two files and the initial metadata
GenerationForm(refVideo, charAsset, performer, movement) ==
    [refVideo |-> refVideo, charAsset |-> charAsset,
     performance_actor |-> performer, movement_type |-> movement,
     take_number |-> 1, tags |-> <<>>]

\* tags.split(',').map(t => t.trim())
splitTags(tags) == [i \in 1..Len(Split(tags)) |-> Trim(Split(tags)[i])]

\* tempTaskData: the task as it exists before the job is submitted
tempTaskData(user, form) ==
    [user_id |-> user,
     status  |-> "UPLOADING",
     initial_metadata |->
        [performance_actor |-> form.performance_actor,
         movement_type |-> form.movement_type,
         take_number |-> form.take_number,
         tags |-> splitTags(form.tags),
         character_asset_name |-> form.charAsset,
         reference_video_name |-> form.refVideo]]

\* the argument of createGenerationTask
taskData(temp, job, charUrl, refUrl) ==
    Spread(temp,
           [status |-> "PENDING",
            runway_task_id |-> job,
            input_character_url |-> charUrl,
            input_reference_video_url |-> refUrl,
            output_video_url |-> NULL,
            error_message |-> NULL])

\* the state of one submission
Submission(temp, refPath, charPath, job) ==
    [temp |-> temp, refPath |-> refPath, charPath |-> charPath, job |-> job]

\* isGenerating: the button is disabled while a submission is in flight
isGenerating == \E m \in BagToSet(muts) : m.kind = "handleStartGeneration"

\* the click on Start Generation up to the first await: the two uploads are
\* issued under fresh paths
handleStartGeneration(user, form) ==
    /\ Truthy(form.refVideo) /\ Truthy(form.charAsset)
    /\ Truthy(form.performance_actor) /\ Truthy(form.movement_type)
    /\ ~isGenerating
    /\ calls < limit
    /\ calls' = calls + 1
    /\ StartMut("handleStartGeneration", "upload", {},
                Submission(tempTaskData(user, form),
                           InputPath(user, nextUuid + 1, form.refVideo),
                           InputPath(user, nextUuid + 2, form.charAsset), NULL))
    /\ nextUuid' = nextUuid + 3
    /\ UNCHANGED <<tblVideos, tblCategories, tblTasks, bucket, runway, nextId, local,
                   loading, closure, fetches, ticks, uploads, limit, proxy, generator, nFailed>>

\* the catch and finally blocks: alert, setIsGenerating(false)
handleStartGeneration_thrown(m) ==
    /\ EndMut(m)
    /\ nFailed' = nFailed + 1
    /\ UNCHANGED <<local, loading, closure, fetches, ticks, uploads, calls, limit, proxy, generator>>

\* both uploads succeed: the job is submitted
handleStartGeneration_uploaded(m) ==
    /\ m.kind = "handleStartGeneration" /\ m.pc = "upload"
    /\ bucket' = bucket \cup {m.cap.refPath, m.cap.charPath}
    /\ GotoMut(m, "start")
    /\ UNCHANGED <<tblVideos, tblCategories, tblTasks, runway, nextId, nextUuid, local,
                   loading, closure, fetches, ticks, uploads, calls, limit, proxy, generator, nFailed>>

\* one of the uploads fails (the other may have been stored): throw
handleStartGeneration_uploadErr(m) ==
    /\ m.kind = "handleStartGeneration" /\ m.pc = "upload"
    /\ \E stored \in {{}, {m.cap.refPath}, {m.cap.charPath}} : bucket' = bucket \cup stored
    /\ handleStartGeneration_thrown(m)
    /\ UNCHANGED <<tblVideos, tblCategories, tblTasks, runway, nextId, nextUuid>>

\* the task row is requested although the submission returned no job id
handleStartGeneration_startErr_Create(m) ==
    /\ m.kind = "handleStartGeneration" /\ m.pc = "start"
    /\ GotoMut(m, "create")
    /\ UNCHANGED <<remote, local, loading, closure, fetches, ticks, uploads,
                   calls, limit, proxy, generator, nFailed>>

\* the submission is rejected (the response is not ok, or carries no id): throw
handleStartGeneration_startErr(m) ==
    /\ m.kind = "handleStartGeneration" /\ m.pc = "start"
    /\ handleStartGeneration_thrown(m)
    /\ UNCHANGED remote

\* the job API accepts the submission and returns the id of the new job:
\* createGenerationTask is called
handleStartGeneration_started(m) ==
    /\ m.kind = "handleStartGeneration" /\ m.pc = "start"
    /\ LET job == JobId(Cardinality(DOMAIN runway) + 1) IN
       /\ runway' = [j \in DOMAIN runway \cup {job} |->
                        IF j = job THEN "pending" ELSE runway[j]]
       /\ muts' = Step(muts, m, [m EXCEPT !.pc = "create", !.cap.job = job])
    /\ UNCHANGED <<tblVideos, tblCategories, tblTasks, bucket, nextId, nextUuid, local,
                   loading, closure, fetches, ticks, uploads, calls, limit, proxy, generator, nFailed>>

\* createGenerationTask: the insert succeeds, the row is prepended to the local
\* tasks; the form is cleared
createGenerationTask_ok(m) ==
    /\ m.kind = "handleStartGeneration" /\ m.pc = "create"
    /\ LET newTask == Spread(taskData(m.cap.temp, m.cap.job,
                                      getPublicUrl(m.cap.charPath), getPublicUrl(m.cap.refPath)),
                             [id |-> nextId])
       IN  /\ tblTasks' = tblTasks \cup {newTask}
           /\ generationTasks' = generationTasks \cup {newTask}
    /\ nextId' = nextId + 1
    /\ EndMut(m)
    /\ UNCHANGED <<tblVideos, tblCategories, bucket, runway, nextUuid, assets, categories,
                   loading, closure, fetches, ticks, uploads, calls, limit, proxy, generator, nFailed>>

\* createGenerationTask: the insert is rejected, logged, null is returned
createGenerationTask_err(m) ==
    /\ m.kind = "handleStartGeneration" /\ m.pc = "create"
    /\ EndMut(m)
    /\ nFailed' = nFailed + 1
    /\ UNCHANGED <<remote, local, loading, closure, fetches, ticks, uploads,
                   calls, limit, proxy, generator>>

\* ===================================================================
\* category management: addCategoryItem, renameCategoryItem,
\* deleteCategoryItem
\* ===================================================================
\* a row of categories (types.ts Category)
Category(id, type, name) == [id |-> id, type |-> type, name |-> name]

\* the characters of the category names in use
Chars(name) ==
    CASE name = ""     -> <<>>
      [] name = " "    -> <<" ">>
      [] name = "Bo"   -> <<"B", "o">>
      [] name = "Run"  -> <<"R", "u", "n">>
      [] name = "Walk" -> <<"W", "a", "l", "k">>
      [] name = "walk" -> <<"w", "a", "l", "k">>

LowerCaseOf(ch) ==
    CASE ch = "B" -> "b"
      [] ch = "R" -> "r"
      [] ch = "W" -> "w"
      [] OTHER -> ch

\* String.prototype.toLowerCase of a name
NameToLowerCase(name) == [i \in 1..Len(Chars(name)) |-> LowerCaseOf(Chars(name)[i])]

\* !name || name.trim() === ''
Blank(name) == Trim(Chars(name)) = <<>>

\* every kind is kept in the column actor_name
keyMap_ActorOnly(type) == "actor_name"

\* keyMap: the column of videos that holds the names of a kind
keyMap(type) ==
    CASE type = "actors"            -> "actor_name"
      [] type = "movements"         -> "movement_type"
      [] type = "performanceActors" -> "performance_actor"

\* update(payload).eq(assetKey, name) on videos: the rows whose column equals
\* `name` get `value` in that column
UpdateVideos(rows, assetKey, name, value) ==
    {IF v[assetKey] = name THEN [v EXCEPT ![assetKey] = value] ELSE v : v \in rows}

\* the handler returns before its try block (for a duplicate name, after the
\* alert has been dismissed)
validationReturn(m) ==
    /\ m.pc = "rejected"
    /\ EndMut(m)
    /\ UNCHANGED <<remote, local, loading, closure, fetches, ticks, uploads,
                   calls, limit, proxy, generator, nFailed>>

\* ---- addCategoryItem -----------------------------------------------
\* the insert is issued for a name that is blank
addCategoryItem_NoCheck(category, name) ==
    /\ calls < limit
    /\ calls' = calls + 1
    /\ StartMut("addCategoryItem", "insert", {}, [type |-> category, name |-> name])
    /\ UNCHANGED <<remote, local, loading, closure, fetches, ticks, uploads,
                   limit, proxy, generator, nFailed>>

addCategoryItem(category, name) ==
    /\ calls < limit
    /\ calls' = calls + 1
    /\ StartMut("addCategoryItem", IF Blank(name) THEN "rejected" ELSE "insert",
                {}, [type |-> category, name |-> name])
    /\ UNCHANGED <<remote, local, loading, closure, fetches, ticks, uploads,
                   limit, proxy, generator, nFailed>>

\* insert([{type, name}]).select() succeeds: the returned row is appended to
\* the local categories
addCategoryItem_ok(m) ==
    /\ m.kind = "addCategoryItem" /\ m.pc = "insert"
    /\ LET data == Category(nextId, m.cap.type, m.cap.name) IN
       /\ tblCategories' = tblCategories \cup {data}
       /\ categories' = categories \cup {data}
    /\ nextId' = nextId + 1
    /\ EndMut(m)
    /\ UNCHANGED <<tblVideos, tblTasks, bucket, runway, nextUuid, assets,
                   generationTasks, loading, closure, fetches, ticks, uploads,
                   calls, limit, proxy, generator, nFailed>>

\* the insert is rejected: logged only
addCategoryItem_err(m) ==
    /\ m.kind = "addCategoryItem" /\ m.pc = "insert"
    /\ EndMut(m)
    /\ nFailed' = nFailed + 1
    /\ UNCHANGED <<remote, local, loading, closure, fetches, ticks, uploads,
                   calls, limit, proxy, generator>>

\* ---- renameCategoryItem --------------------------------------------
\* the name is taken in the captured categories, compared without case
NameTaken(cats, type, newName) ==
    \E c \in cats : c.type = type /\ NameToLowerCase(c.name) = NameToLowerCase(newName)

renameCategoryItem(categoryToRename, newName) ==
    /\ calls < limit
    /\ calls' = calls + 1
    /\ LET invalid == Blank(newName) \/ categoryToRename.name = newName
           taken   == NameTaken(closure.categories, categoryToRename.type, newName)
       IN  StartMut("renameCategoryItem",
                    IF invalid \/ taken THEN "rejected" ELSE "update",
                    {categoryToRename.id}, [cat |-> categoryToRename, name |-> newName])
    /\ UNCHANGED <<remote, local, loading, closure, fetches, ticks, uploads,
                   limit, proxy, generator, nFailed>>

\* update({name: newName}).eq('id', categoryToRename.id) succeeds
renameCategoryItem_ok(m) ==
    /\ m.kind = "renameCategoryItem" /\ m.pc = "update"
    /\ tblCategories' =
          {IF c.id = m.cap.cat.id THEN [c EXCEPT !.name = m.cap.name] ELSE c :
              c \in tblCategories}
    /\ GotoMut(m, "cascade")
    /\ UNCHANGED <<tblVideos, tblTasks, bucket, runway, nextId, nextUuid, local,
                   loading, closure, fetches, ticks, uploads, calls, limit, proxy, generator, nFailed>>

\* the cascade update of videos succeeds: await fetchAllData()
renameCategoryItem_cascade(m) ==
    /\ m.kind = "renameCategoryItem" /\ m.pc = "cascade"
    /\ tblVideos' = UpdateVideos(tblVideos, keyMap(m.cap.cat.type), m.cap.cat.name, m.cap.name)
    /\ fetchAllData(m.kind, 0)
    /\ EndMut(m)
    /\ UNCHANGED <<tblCategories, tblTasks, bucket, runway, nextId, nextUuid, local,
                   closure, ticks, uploads, calls, limit, proxy, generator, nFailed>>

\* either update is rejected: logged only
renameCategoryItem_err(m) ==
    /\ m.kind = "renameCategoryItem" /\ m.pc \in {"update", "cascade"}
    /\ EndMut(m)
    /\ nFailed' = nFailed + 1
    /\ UNCHANGED <<remote, local, loading, closure, fetches, ticks, uploads,
                   calls, limit, proxy, generator>>

\* ---- deleteCategoryItem --------------------------------------------
deleteCategoryItem(categoryToDelete) ==
    /\ calls < limit
    /\ calls' = calls + 1
    /\ StartMut("deleteCategoryItem", "delete", {categoryToDelete.id},
                [cat |-> categoryToDelete, name |-> Uncategorized])
    /\ UNCHANGED <<remote, local, loading, closure, fetches, ticks, uploads,
                   limit, proxy, generator, nFailed>>

\* the row stays in the table
deleteCategoryItem_ok_KeepRow(m) ==
    /\ m.kind = "deleteCategoryItem" /\ m.pc = "delete"
    /\ GotoMut(m, "cascade")
    /\ UNCHANGED <<remote, local, loading, closure, fetches, ticks, uploads,
                   calls, limit, proxy, generator, nFailed>>

\* delete().eq('id', categoryToDelete.id) succeeds
deleteCategoryItem_ok(m) ==
    /\ m.kind = "deleteCategoryItem" /\ m.pc = "delete"
    /\ tblCategories' = {c \in tblCategories : c.id # m.cap.cat.id}
    /\ GotoMut(m, "cascade")
    /\ UNCHANGED <<tblVideos, tblTasks, bucket, runway, nextId, nextUuid, local,
                   loading, closure, fetches, ticks, uploads, calls, limit, proxy, generator, nFailed>>

\* the cascade update of videos succeeds: await fetchAllData()
deleteCategoryItem_cascade(m) ==
    /\ m.kind = "deleteCategoryItem" /\ m.pc = "cascade"
    /\ tblVideos' = UpdateVideos(tblVideos, keyMap(m.cap.cat.type), m.cap.cat.name, Uncategorized)
    /\ fetchAllData(m.kind, 0)
    /\ EndMut(m)
    /\ UNCHANGED <<tblCategories, tblTasks, bucket, runway, nextId, nextUuid, local,
                   closure, ticks, uploads, calls, limit, proxy, generator, nFailed>>

\* either call is rejected: logged only
deleteCategoryItem_err(m) ==
    /\ m.kind = "deleteCategoryItem" /\ m.pc \in {"delete", "cascade"}
    /\ EndMut(m)
    /\ nFailed' = nFailed + 1
    /\ UNCHANGED <<remote, local, loading, closure, fetches, ticks, uploads,
                   calls, limit, proxy, generator>>

\* ===================================================================
\* initial states
\* ===================================================================
UserId == "u1"

Asset(id, name, actor, fav) ==
    [id |-> id, file_path |-> <<UserId, name>>, video_url |-> getPublicUrl(<<UserId, name>>),
     actor_name |-> actor, movement_type |-> "Walk", performance_actor |-> "Alex",
     take_number |-> 1, tags |-> <<>>, is_favorite |-> fav]

Task(id, job, status, out, err) ==
    [id |-> id, runway_task_id |-> job, status |-> status,
     output_video_url |-> out, error_message |-> err,
     input_character_url |-> getPublicUrl(<<UserId, "generation_inputs", "char">>),
     input_reference_video_url |-> getPublicUrl(<<UserId, "generation_inputs", "ref">>)]

\* useState initial values, and the mount effect's fetchAllData() in flight
Mounted(v, c, t, b, r, n) ==
    /\ tblVideos = v /\ tblCategories = c /\ tblTasks = t
    /\ bucket = b /\ runway = r
    /\ nextId = 10 /\ nextUuid = 1
    /\ assets = {} /\ categories = {} /\ generationTasks = {}
    /\ loading = TRUE
    /\ closure = [assets |-> {}, categories |-> {}, tasks |-> {}]
    /\ fetches = SetToBag({[why |-> "mount", arg |-> 0,
                             v |-> SelWait, c |-> SelWait, t |-> SelWait]})
    /\ muts = EmptyBag
    /\ ticks = EmptyBag
    /\ uploads = EmptyBag
    /\ calls = 0
    /\ limit = n
    /\ proxy = Idle
    /\ generator = Generator(TRUE, SetToBag({Interval({})}))
    /\ nFailed = 0

\* ===================================================================
\* SpecSync: optimistic mutations, reloads and renders over a loaded gallery
\* ===================================================================
A1 == Asset(1, "a.mp4", "Nova", FALSE)
A2 == Asset(2, "b.mp4", "Nova", TRUE)
T1 == Task(1, "job-1", "RUNNING", NULL, NULL)

EditNames == {"Nova", "Iris"}

SyncBucket ==
    {A1.file_path, A2.file_path,
     <<UserId, "generation_inputs", "char">>, <<UserId, "generation_inputs", "ref">>}

InitSync == Mounted({A1, A2}, {}, {T1}, SyncBucket, [j \in {"job-1"} |-> "running"], SyncCalls)

NextSync ==
    \/ \E f \in BagToSet(fetches) : selectVideos(f)
    \/ \E f \in BagToSet(fetches) : selectCategories(f)
    \/ \E f \in BagToSet(fetches) : selectTasks(f)
    \/ \E f \in BagToSet(fetches) : selectError(f)
    \/ \E f \in BagToSet(fetches) : fetchAllDataDone(f)
    \/ refreshData
    \/ Render
    \/ \E id \in ShownAssetIds : toggleFavorite(id)
    \/ \E m \in BagToSet(muts) : toggleFavorite_ok(m)
    \/ \E m \in BagToSet(muts) : toggleFavorite_err(m)
    \/ \E id \in ShownAssetIds : deleteAsset(id)
    \/ \E ids \in SUBSET ShownAssetIds : ids # {} /\ deleteMultipleAssets(ids)
    \/ \E m \in BagToSet(muts) : deleteAsset_ok(m)
    \/ \E m \in BagToSet(muts) : deleteAsset_err(m)
    \/ \E m \in BagToSet(muts) : deleteAsset_removeOk(m)
    \/ \E m \in BagToSet(muts) : deleteAsset_removeErr(m)
    \/ \E a \in closure.assets : \E n \in EditNames \ {a.actor_name} :
          updateAsset([a EXCEPT !.actor_name = n])
    \/ \E m \in BagToSet(muts) : updateAsset_ok(m)
    \/ \E m \in BagToSet(muts) : updateAsset_err(m)
    \/ \E id \in ShownTaskIds : deleteGenerationTask(id)
    \/ \E m \in BagToSet(muts) : deleteGenerationTask_cancel(m)
    \/ \E m \in BagToSet(muts) : deleteGenerationTask_ok(m)
    \/ \E m \in BagToSet(muts) : deleteGenerationTask_err(m)
    \/ \E m \in BagToSet(muts) : deleteGenerationTask_remove(m)

SpecSync == InitSync /\ [][NextSync]_vars

\* ===================================================================
\* SpecRace: the same handlers over a store whose selects always answer
\* ===================================================================
InitRace == Mounted({A1, A2}, {}, {T1}, SyncBucket, [j \in {"job-1"} |-> "running"], RaceCalls)

\* every handler is invoked from the latest render
NextRace ==
    \/ \E f \in BagToSet(fetches) : selectVideos(f)
    \/ \E f \in BagToSet(fetches) : selectCategories(f)
    \/ \E f \in BagToSet(fetches) : selectTasks(f)
    \/ \E f \in BagToSet(fetches) : fetchAllDataDone(f)
    \/ refreshData
    \/ Render
    \/ \E id \in ShownAssetIds : closure = Rendered /\ toggleFavorite(id)
    \/ \E m \in BagToSet(muts) : toggleFavorite_ok(m)
    \/ \E m \in BagToSet(muts) : toggleFavorite_err(m)
    \/ \E id \in ShownAssetIds : closure = Rendered /\ deleteAsset(id)
    \/ \E ids \in SUBSET ShownAssetIds :
          ids # {} /\ closure = Rendered /\ deleteMultipleAssets(ids)
    \/ \E m \in BagToSet(muts) : deleteAsset_ok(m)
    \/ \E m \in BagToSet(muts) : deleteAsset_err(m)
    \/ \E m \in BagToSet(muts) : deleteAsset_removeOk(m)
    \/ \E m \in BagToSet(muts) : deleteAsset_removeErr(m)
    \/ \E a \in closure.assets : \E n \in EditNames \ {a.actor_name} :
          closure = Rendered /\ updateAsset([a EXCEPT !.actor_name = n])
    \/ \E m \in BagToSet(muts) : updateAsset_ok(m)
    \/ \E m \in BagToSet(muts) : updateAsset_err(m)
    \/ \E id \in ShownTaskIds : closure = Rendered /\ deleteGenerationTask(id)
    \/ \E m \in BagToSet(muts) : deleteGenerationTask_cancel(m)
    \/ \E m \in BagToSet(muts) : deleteGenerationTask_ok(m)
    \/ \E m \in BagToSet(muts) : deleteGenerationTask_err(m)
    \/ \E m \in BagToSet(muts) : deleteGenerationTask_remove(m)

SpecRace == InitRace /\ [][NextRace]_vars

\* ===================================================================
\* SpecPoll: poll ticks over two tracked jobs, each tick fired from the
\* latest render
\* ===================================================================
P1 == Task(1, "job-1", "PENDING", NULL, NULL)
P2 == Task(2, "job-2", "RUNNING", NULL, NULL)

InitPoll ==
    Mounted({}, {}, {P1, P2}, {},
            [j \in {"job-1", "job-2"} |-> IF j = "job-1" THEN "pending" ELSE "running"],
            PollTicks)

NextPoll ==
    \/ \E f \in BagToSet(fetches) : selectVideos(f)
    \/ \E f \in BagToSet(fetches) : selectCategories(f)
    \/ \E f \in BagToSet(fetches) : selectTasks(f)
    \/ \E f \in BagToSet(fetches) : fetchAllDataDone(f)
    \/ Render
    \/ closure = Rendered /\ pollTasks
    \/ \E k \in BagToSet(ticks) : pollTasks_status(k)
    \/ \E k \in BagToSet(ticks) : pollTasks_throw(k)
    \/ \E k \in BagToSet(ticks) : pollTasks_updateOk(k)
    \/ \E k \in BagToSet(ticks) : pollTasks_updateErr(k)
    \/ \E k \in BagToSet(ticks) : pollTasks_failed(k)
    \/ runwayProgress

SpecPoll == InitPoll /\ [][NextPoll]_vars

\* ===================================================================
\* SpecOverlap: overlapping poll ticks over one tracked job
\* ===================================================================
InitOverlap ==
    Mounted({}, {}, {P1}, {}, [j \in {"job-1"} |-> "pending"], OverlapTicks)

SpecOverlap == InitOverlap /\ [][NextPoll]_vars

\* ===================================================================
\* SpecTimer: the generation view opened and closed over one polled job
\* ===================================================================
\* the AI Generation tab is shown: AiGenerator mounts over the tasks of this
\* render and its effect registers the interval
openGenerator ==
    /\ ~generator.mounted
    /\ closure' = Rendered
    /\ generator' = Generator(TRUE, SetToBag({Interval(generationTasks)}))
    /\ UNCHANGED <<remote, local, loading, procs, calls, limit, proxy, nFailed>>

\* the tab or the modal is left: AiGenerator unmounts and the effect's cleanup
\* clears its interval
closeGenerator ==
    /\ generator.mounted
    /\ closure' = Rendered
    /\ generator' = Generator(FALSE, EmptyBag)
    /\ UNCHANGED <<remote, local, loading, procs, calls, limit, proxy, nFailed>>

InitTimer ==
    Mounted({}, {}, {P1}, {}, [j \in {"job-1"} |-> "pending"], TimerTicks)

NextTimer ==
    \/ NextPoll
    \/ openGenerator
    \/ closeGenerator

SpecTimer == InitTimer /\ [][NextTimer]_vars

\* ===================================================================
\* SpecUpload: ingestions over a loaded gallery
\* ===================================================================
\* the view after the mount effect's reload: the local collections are the
\* store's and have been rendered, nothing is in flight
Loaded(v, c, t, b, r, n) ==
    /\ tblVideos = v /\ tblCategories = c /\ tblTasks = t
    /\ bucket = b /\ runway = r
    /\ nextId = 10 /\ nextUuid = 1
    /\ assets = v /\ categories = c /\ generationTasks = t
    /\ loading = FALSE
    /\ closure = [assets |-> v, categories |-> c, tasks |-> t]
    /\ fetches = EmptyBag
    /\ muts = EmptyBag
    /\ ticks = EmptyBag
    /\ uploads = EmptyBag
    /\ calls = 0
    /\ limit = n
    /\ proxy = Idle
    /\ generator = Generator(TRUE, SetToBag({Interval(t)}))
    /\ nFailed = 0

UploadCategories == {Category(1, "movements", "Walk")}

\* tag texts as typed into the form: "a, b", " ,a ," and the empty text
TagsAB    == <<"a", ",", " ", "b">>
TagsBlank == <<" ", ",", "a", " ", ",">>
TagTexts  == {TagsAB, TagsBlank, <<>>}

\* staged batches: a source file of one of the performers, with or without a
\* result file
StagedBatches(performers, texts) ==
    {PerformanceBatch("src.mp4", performer, "Walk", 1, tags, results) :
        performer \in performers,
        tags \in texts,
        results \in UNION {[1..n -> {StagedResultFile("res.mp4", "Bo")}] : n \in 0..MaxResults}}

BatchLists(performers, texts, max) ==
    UNION {[1..n -> StagedBatches(performers, texts)] : n \in 1..max}

Ingestion(lists) ==
    \/ \E f \in BagToSet(fetches) : selectVideos(f)
    \/ \E f \in BagToSet(fetches) : selectCategories(f)
    \/ \E f \in BagToSet(fetches) : selectTasks(f)
    \/ \E f \in BagToSet(fetches) : selectError(f)
    \/ \E f \in BagToSet(fetches) : fetchAllDataDone(f)
    \/ Render
    \/ \E batches \in lists : closure = Rendered /\ addAssets(UserId, batches)
    \/ \E u \in BagToSet(uploads) : addAssets_categoriesOk(u)
    \/ \E u \in BagToSet(uploads) : addAssets_categoriesErr(u)
    \/ \E u \in BagToSet(uploads) : addAssets_uploaded(u)
    \/ \E u \in BagToSet(uploads) : addAssets_insertOk(u)
    \/ \E u \in BagToSet(uploads) : addAssets_insertErr(u)
    \/ \E u \in BagToSet(uploads) : addAssets_done(u)

\* one ingestion of a list of batches, the performer possibly left empty
InitUpload == Loaded({}, UploadCategories, {}, {}, <<>>, UploadCalls)
NextUpload == Ingestion(BatchLists({"", "Bo"}, TagTexts, MaxBatches))
SpecUpload == InitUpload /\ [][NextUpload]_vars

\* repeated ingestions of single batches as the upload form submits them (the
\* form requires the performer, the movement and every result's actor)
InitReupload == Loaded({}, UploadCategories, {}, {}, <<>>, ReuploadCalls)
NextReupload == Ingestion(BatchLists({"Bo"}, {TagsAB}, 1))
SpecReupload == InitReupload /\ [][NextReupload]_vars

\* ===================================================================
\* SpecProxy: requests served by the proxy, one after the other
\* ===================================================================
Requests ==
    {Request(m, t, NULL) : m \in {"OPTIONS", "GET", "DELETE", "PUT"}, t \in {NULL, "job-1"}}
    \cup {Request("POST", NULL, b) : b \in {JsonCompact, JsonSpaced, HtmlText}}

ApiKeys == {NULL, "key"}

\* answers of the external service: a status and a body text
ExternalResponses ==
    {Response(st, b) : st \in {200, 204, 404, 502}, b \in {JsonCompact, JsonSpaced, HtmlText, ""}}

InitProxy == Loaded({}, {}, {}, {}, <<>>, ProxyCalls)

NextProxy ==
    \/ \E request \in Requests, key \in ApiKeys : handler(request, key)
    \/ \E ext \in ExternalResponses : handler_answered(ext)
    \/ handler_fetchErr

SpecProxy == InitProxy /\ [][NextProxy]_vars

\* ===================================================================
\* SpecToggle: toggleFavorite called from the latest or from an earlier
\* render, over a loaded gallery
\* ===================================================================
InitToggle == Loaded({A1, A2}, {}, {}, {A1.file_path, A2.file_path}, <<>>, ToggleCalls)

NextToggle ==
    \/ \E f \in BagToSet(fetches) : selectVideos(f)
    \/ \E f \in BagToSet(fetches) : selectCategories(f)
    \/ \E f \in BagToSet(fetches) : selectTasks(f)
    \/ \E f \in BagToSet(fetches) : fetchAllDataDone(f)
    \/ Render
    \/ \E id \in ShownAssetIds : toggleFavorite(id)
    \/ \E m \in BagToSet(muts) : toggleFavorite_ok(m)
    \/ \E m \in BagToSet(muts) : toggleFavorite_err(m)

SpecToggle == InitToggle /\ [][NextToggle]_vars

\* ===================================================================
\* SpecCategories: category management over a loaded gallery
\* ===================================================================
Video(id, actor, movement, performer) ==
    [Asset(id, "v.mp4", actor, FALSE) EXCEPT
        !.movement_type = movement, !.performance_actor = performer]

V1 == Video(1, "Bo", "Walk", "Bo")
V2 == Video(2, "Walk", "Run", "Bo")
K1 == Category(1, "actors", "Bo")
K2 == Category(2, "movements", "Walk")
K3 == Category(3, "actors", "Walk")

\* names handed to addCategoryItem and renameCategoryItem
NewNames == {"", " ", "Walk", "walk", "Run"}

InitCategories == Loaded({V1, V2}, {K1, K2, K3}, {}, {V1.file_path}, <<>>, CategoryCalls)

NextCategories ==
    \/ \E f \in BagToSet(fetches) : selectVideos(f)
    \/ \E f \in BagToSet(fetches) : selectCategories(f)
    \/ \E f \in BagToSet(fetches) : selectTasks(f)
    \/ \E f \in BagToSet(fetches) : selectError(f)
    \/ \E f \in BagToSet(fetches) : fetchAllDataDone(f)
    \/ Render
    \/ \E type \in CategoryTypes : \E name \in NewNames : addCategoryItem(type, name)
    \/ \E m \in BagToSet(muts) : addCategoryItem_ok(m)
    \/ \E m \in BagToSet(muts) : addCategoryItem_err(m)
    \/ \E c \in closure.categories : \E name \in NewNames : renameCategoryItem(c, name)
    \/ \E m \in BagToSet(muts) : renameCategoryItem_ok(m)
    \/ \E m \in BagToSet(muts) : renameCategoryItem_cascade(m)
    \/ \E m \in BagToSet(muts) : renameCategoryItem_err(m)
    \/ \E c \in closure.categories : deleteCategoryItem(c)
    \/ \E m \in BagToSet(muts) : deleteCategoryItem_ok(m)
    \/ \E m \in BagToSet(muts) : deleteCategoryItem_cascade(m)
    \/ \E m \in BagToSet(muts) : deleteCategoryItem_err(m)
    \/ \E m \in BagToSet(muts) : validationReturn(m)

SpecCategories == InitCategories /\ [][NextCategories]_vars

\* ===================================================================
\* SpecTasks: deletion and promotion of generation tasks
\* ===================================================================
\* a task with its own input objects and its initial_metadata
GenTask(id, job, status, out, err, charName) ==
    [id |-> id, runway_task_id |-> job, status |-> status,
     output_video_url |-> out, error_message |-> err,
     input_character_url |-> getPublicUrl(<<UserId, "generation_inputs", charName>>),
     input_reference_video_url |->
        getPublicUrl(<<UserId, "generation_inputs", ToString(id) \o "-ref.mp4">>),
     initial_metadata |->
        [performance_actor |-> "Alex", movement_type |-> "Walk", take_number |-> 2,
         tags |-> <<"raw">>,
         character_asset_name |-> charName,
         reference_video_name |-> ToString(id) \o "-ref.mp4"]]

G1 == GenTask(1, "job-1", "RUNNING", NULL, NULL, "1-char.png")
\* the character file of the second task is called "my char.png"
G2 == GenTask(2, "job-2", "SUCCEEDED", OutputUri, NULL, "7-my char.png")

\* the input objects of a task as they were uploaded
InputObjects(t) ==
    {<<UserId, "generation_inputs", t.initial_metadata.character_asset_name>>,
     <<UserId, "generation_inputs", t.initial_metadata.reference_video_name>>}

\* the metadata typed into the save form: the final actor and the tag text
\* "final", split and trimmed
FinalMetadata == {[actor_name |-> "Nova", tags |-> <<"final">>]}

TaskRunway == [j \in {"job-1", "job-2"} |-> IF j = "job-1" THEN "running" ELSE "succeeded"]

InitTasks ==
    Loaded({}, {}, {G1, G2}, InputObjects(G1) \cup InputObjects(G2), TaskRunway, TaskCalls)

NextTasks ==
    \/ \E f \in BagToSet(fetches) : selectVideos(f)
    \/ \E f \in BagToSet(fetches) : selectCategories(f)
    \/ \E f \in BagToSet(fetches) : selectTasks(f)
    \/ \E f \in BagToSet(fetches) : selectError(f)
    \/ \E f \in BagToSet(fetches) : fetchAllDataDone(f)
    \/ Render
    \/ \E id \in ShownTaskIds : deleteGenerationTask(id)
    \/ \E m \in BagToSet(muts) : deleteGenerationTask_cancel(m)
    \/ \E m \in BagToSet(muts) : deleteGenerationTask_ok(m)
    \/ \E m \in BagToSet(muts) : deleteGenerationTask_err(m)
    \/ \E m \in BagToSet(muts) : deleteGenerationTask_remove(m)

SpecTasks == InitTasks /\ [][NextTasks]_vars

\* ===================================================================
\* SpecPromote: promotions of finished tasks, reloads that succeed
\* ===================================================================
\* a task that a late poll error marked FAILED after its output had been
\* stored
G3 == GenTask(3, "job-3", "FAILED", OutputUri, FetchRejected, "3-char.png")

\* (a task offered for promotion is SUCCEEDED in the closure, so the deletion
\* that follows the insert never starts with a cancel)
InitPromote ==
    Loaded({}, {}, {G2, G3}, InputObjects(G2) \cup InputObjects(G3),
           [j \in {"job-2", "job-3"} |-> "succeeded"], PromoteCalls)

NextPromote ==
    \/ \E f \in BagToSet(fetches) : selectVideos(f)
    \/ \E f \in BagToSet(fetches) : selectCategories(f)
    \/ \E f \in BagToSet(fetches) : selectTasks(f)
    \/ \E f \in BagToSet(fetches) : fetchAllDataDone(f)
    \/ Render
    \/ \E m \in BagToSet(muts) : deleteGenerationTask_ok(m)
    \/ \E m \in BagToSet(muts) : deleteGenerationTask_err(m)
    \/ \E m \in BagToSet(muts) : deleteGenerationTask_remove(m)
    \/ \E t \in closure.tasks : \E meta \in FinalMetadata :
          CanSave(t) /\ saveGeneratedVideoToGallery(UserId, t, meta)
    \/ \E m \in BagToSet(muts) : saveGeneratedVideoToGallery_fetched(m)
    \/ \E m \in BagToSet(muts) : saveGeneratedVideoToGallery_fetchErr(m)
    \/ \E m \in BagToSet(muts) : saveGeneratedVideoToGallery_uploaded(m)
    \/ \E m \in BagToSet(muts) : saveGeneratedVideoToGallery_uploadErr(m)
    \/ \E m \in BagToSet(muts) : saveGeneratedVideoToGallery_inserted(m)
    \/ \E m \in BagToSet(muts) : saveGeneratedVideoToGallery_insertErr(m)
    \/ \E m \in BagToSet(muts) : saveGeneratedVideoToGallery_deleted(m)

SpecPromote == InitPromote /\ [][NextPromote]_vars

\* ===================================================================
\* SpecGenerate: submissions of generation jobs
\* ===================================================================
\* forms as filled in: two files, a performer (possibly left empty) and a
\* movement
GenerationForms ==
    {GenerationForm("ref.mp4", "char.png", performer, "Walk") : performer \in {"", "Alex", "Bo"}}

InitGenerate == Loaded({}, {}, {}, {}, <<>>, GenerateCalls)

NextGenerate ==
    \/ Render
    \/ \E form \in GenerationForms : handleStartGeneration(UserId, form)
    \/ \E m \in BagToSet(muts) : handleStartGeneration_uploaded(m)
    \/ \E m \in BagToSet(muts) : handleStartGeneration_uploadErr(m)
    \/ \E m \in BagToSet(muts) : handleStartGeneration_started(m)
    \/ \E m \in BagToSet(muts) : handleStartGeneration_startErr(m)
    \/ \E m \in BagToSet(muts) : createGenerationTask_ok(m)
    \/ \E m \in BagToSet(muts) : createGenerationTask_err(m)

SpecGenerate == InitGenerate /\ [][NextGenerate]_vars

\* ===================================================================
\* claims
\* ===================================================================
Quiescent ==
    fetches = EmptyBag /\ muts = EmptyBag /\ ticks = EmptyBag /\ uploads = EmptyBag

\* a fetchAllData invocation that has just been issued
FreshFetch(f) == f.v = SelWait /\ f.c = SelWait /\ f.t = SelWait

\* this step issues one fetchAllData, which selects all three collections
StartsFullReload ==
    \E f \in BagToSet(fetches') : FreshFetch(f) /\ fetches' = Put(fetches, f)

\* C1: whenever the remote-store call of an optimistic mutation (deleteAsset,
\* deleteMultipleAssets, updateAsset, toggleFavorite, deleteGenerationTask)
\* fails, that step starts a full reload of the three collections and leaves the
\* local collections as they are (no field-level rollback).
C1_ReloadOnFailure ==
    [][nFailed' # nFailed => StartsFullReload /\ UNCHANGED local]_vars

\* C1 witness: a reload started by a failed task deletion is in flight, the task
\* still removed locally.
C1_Witness ==
    /\ nFailed > 0
    /\ \E f \in BagToSet(fetches) : f.why = "deleteGenerationTask"
    /\ generationTasks = {} /\ tblTasks # {}

\* C2 (as claimed): once some mutation's remote call has failed and every
\* in-flight remote call and reload has completed, the local collections equal
\* the contents of the remote store.
C2_Converges ==
    (nFailed > 0 /\ Quiescent) =>
        (assets = tblVideos /\ categories = tblCategories /\ generationTasks = tblTasks)

\* an invocation that is in the bag after this step and was not before
Started(bag, e) == CopiesIn(e, bag') > CopiesIn(e, bag)
\* an invocation that has left the bag in this step
Ended(bag, e)   == CopiesIn(e, bag') < CopiesIn(e, bag)

Flip(a) == [a EXCEPT !.is_favorite = ~a.is_favorite]

\* the call of toggleFavorite: the asset is flipped locally, the store untouched
C3_FlipsFirst ==
    \A m \in BagToSet(muts') :
       (m.kind = "toggleFavorite" /\ Started(muts, m)) =>
          /\ tblVideos' = tblVideos
          /\ \A a \in assets : a.id \in m.ids => Flip(a) \in assets' /\ a \notin assets'

\* the update fails: the server's row stays as it is and a reload starts
C3_FailureReloads ==
    \A m \in BagToSet(muts) :
       (m.kind = "toggleFavorite" /\ Ended(muts, m) /\ nFailed' # nFailed) =>
          /\ tblVideos' = tblVideos
          /\ \E f \in BagToSet(fetches') :
                f.why = "toggleFavorite" /\ f.arg \in m.ids /\ Started(fetches, f)

\* the reload started by the failed toggle completes, the server's row being the
\* one it read: the local asset then carries the server's is_favorite
C3_ReloadShowsServer ==
    \A f \in BagToSet(fetches) :
       (f.why = "toggleFavorite" /\ FetchAnswered(f) /\ Ended(fetches, f)
                                  /\ ~FetchFailed(f)) =>
          \A v \in tblVideos :
             (v.id = f.arg /\ v \in f.v.rows) =>
                \E a \in assets' : a.id = v.id /\ a.is_favorite = v.is_favorite

\* C3: toggleFavorite on an asset present locally flips its is_favorite in the
\* local collection at the call, before the remote update returns; if the
\* remote update fails the server's value stays unchanged and a reload starts, and
\* when that reload completes (its selects answered, the server's row still the
\* one read) the local is_favorite equals the server's value.
C3_ToggleFavorite ==
    [][C3_FlipsFirst /\ C3_FailureReloads /\ C3_ReloadShowsServer]_vars

\* C3 witness: the toggle of asset 1 was rendered flipped, its update failed,
\* the reload has completed, and the local asset shows the server's value again
\* (FALSE, as before the toggle).
C3_Witness ==
    /\ nFailed = 1 /\ calls = 1 /\ Quiescent
    /\ \E a \in closure.assets : a.id = 1 /\ a.is_favorite = TRUE
    /\ \E a \in assets : a.id = 1 /\ a.is_favorite = FALSE
    /\ \E v \in tblVideos : v.id = 1 /\ v.is_favorite = FALSE

\* -------------------------------------------------------------------
\* poll ticks
\* -------------------------------------------------------------------
\* the record a tick that took this step has become (none if it returned)
After == {k2 \in BagToSet(ticks') : Started(ticks, k2)}

\* the row of the store with the given id
StoredTask(id) == {t \in tblTasks : t.id = id}

Regresses(from, to) ==
    \/ from \in {"SUCCEEDED", "FAILED"} /\ to \in {"PENDING", "RUNNING"}
    \/ from = "RUNNING" /\ to = "PENDING"

\* C4: the stored status of a generation task only moves forward: no step
\* changes a stored SUCCEEDED or FAILED to PENDING or RUNNING, and none changes
\* RUNNING back to PENDING, whatever the interleaving of the poll ticks.
C4_OnlyForward ==
    [][\A t \in tblTasks : \A u \in tblTasks' :
          t.id = u.id => ~Regresses(t.status, u.status)]_vars

\* C5: a poll tick that starts queries no task whose stored status is already
\* SUCCEEDED, FAILED or ARCHIVED: the task of the first query it issues is
\* PENDING or RUNNING in the store.
C5_TerminalNotQueried ==
    [][\A k \in BagToSet(ticks') :
          ticks' = Put(ticks, k) =>
             \A t \in StoredTask(Head(k.queue).id) : t.status \in {"PENDING", "RUNNING"}]_vars

\* the status query of a tick is answered: a differing report issues the update
\* of that task with the report, an equal one issues and writes nothing
C6_Compared ==
    \A k \in BagToSet(ticks) :
       (k.pc = "get" /\ Ended(ticks, k) /\ \A k2 \in After : k2.pc # "failed") =>
          LET task   == Head(k.queue)
              status == runway[task.runway_task_id]
          IN  /\ tblTasks' = tblTasks
              /\ fetches' = fetches
              /\ IF status # ToLowerCase(task.status)
                    THEN \E k2 \in After :
                            /\ After = {k2}
                            /\ k2.pc = "update" /\ k2.queue = k.queue
                            /\ k2.resp.status = status
                    ELSE \A k2 \in After : k2.pc = "get" /\ Len(k2.queue) < Len(k.queue)

\* the update of a tick returns: either the store has rejected it and nothing
\* happens, or the row carries the report and a full reload starts
C6_Written ==
    \A k \in BagToSet(ticks) :
       (k.pc = "update" /\ Ended(ticks, k)) =>
          LET task == Head(k.queue)
              row(t) == [t EXCEPT !.status = ToUpperCase(k.resp.status),
                                  !.output_video_url = k.resp.uri,
                                  !.error_message = k.resp.error]
          IN  /\ k.resp.status # ToLowerCase(task.status)
              /\ \/ tblTasks' = tblTasks /\ fetches' = fetches
                 \/ /\ tblTasks' = {IF t.id = task.id THEN row(t) ELSE t : t \in tblTasks}
                    /\ StartsFullReload
                    /\ (k.resp.status = "succeeded" /\ k.resp.uri # NULL) =>
                          \A t \in tblTasks' :
                             t.id = task.id =>
                                t.status = "SUCCEEDED" /\ t.output_video_url = k.resp.uri

\* C6: for each polled task, a reported status that differs from the status in
\* the tick's task list issues an update of that task; once the store has
\* applied it the row has the reported status upper-cased, the reported output
\* uri (else null) and the reported error (else null), and a reload of the local
\* state starts; a report equal to the local status writes nothing. A report of
\* "succeeded" with an output uri yields SUCCEEDED with that uri.
C6_UpdateOnChange == [][C6_Compared /\ C6_Written]_vars

\* a tick has stored SUCCEEDED and the output uri for task 1
C6_Witness ==
    /\ \E t \in tblTasks :
          t.id = 1 /\ t.status = "SUCCEEDED" /\ t.output_video_url = OutputUri
    /\ \E f \in BagToSet(fetches) : f.why = "pollTasks"

HasJob(t) == Truthy(t.runway_task_id)

\* the status query of a tick throws: the tick itself issues the FAILED update
\* of that task with the exception's message
C7_Caught ==
    \A k \in BagToSet(ticks) :
       (k.pc = "get" /\ Ended(ticks, k) /\ \E k2 \in After : k2.pc = "failed") =>
          /\ tblTasks' = tblTasks
          /\ \E k2 \in After :
                After = {k2} /\ k2.queue = k.queue /\ k2.msg \in {FetchRejected, HttpError}

\* the FAILED update returns: at most the row of that task has changed, to
\* FAILED with the message, and the tick goes on with its remaining tasks
C7_Stored ==
    \A k \in BagToSet(ticks) :
       (k.pc = "failed" /\ Ended(ticks, k)) =>
          LET task == Head(k.queue)
              rest == SelectSeq(Tail(k.queue), HasJob)
          IN  /\ \/ tblTasks' = tblTasks
                 \/ tblTasks' = {IF t.id = task.id
                                   THEN [t EXCEPT !.status = "FAILED", !.error_message = k.msg]
                                   ELSE t : t \in tblTasks}
              /\ StartsFullReload
              /\ IF rest = <<>> THEN After = {}
                               ELSE \E k2 \in After :
                                       After = {k2} /\ k2.pc = "get" /\ k2.queue = rest

\* C7: when the status query for one task throws during a poll tick, the tick
\* catches it: that task and no other is stored as FAILED with the exception's
\* message as error_message, and the tick goes on to query the remaining tasks
\* of its list.
C7_ExceptionScoped == [][C7_Caught /\ C7_Stored]_vars

\* the query for task 2 has thrown, task 2 is stored as FAILED with the
\* message, task 1 is untouched and the same tick is now querying it
C7_Witness ==
    /\ \E t \in tblTasks :
          t.id = 2 /\ t.status = "FAILED" /\ t.error_message = FetchRejected
    /\ P1 \in tblTasks
    /\ \E k \in BagToSet(ticks) : k.pc = "get" /\ k.queue = <<P1>>

\* -------------------------------------------------------------------
\* ingestion
\* -------------------------------------------------------------------
\* the category rows of a (kind, name) pair
RowsOf(rows, type, name) == {c \in rows : c.type = type /\ c.name = name}

\* the category rows created since the initial state
CreatedCategories == tblCategories \ UploadCategories

\* C8: over any sequence of addAssets calls naming the same (name, kind) pair,
\* at most one category row is ever created for that pair.
C8_CreatedOnce ==
    \A c \in CreatedCategories :
       Cardinality(RowsOf(CreatedCategories, c.type, c.name)) <= 1

\* the (kind, name) pairs a list of batches requests: per batch the performer
\* under performanceActors and actors, the movement under movements, and the
\* actor of each result file under actors
Requested(batches) ==
    UNION {
       {[type |-> "performanceActors", name |-> batches[i].sourceFile.performance_actor],
        [type |-> "movements", name |-> batches[i].sourceFile.movement_type],
        [type |-> "actors", name |-> batches[i].sourceFile.performance_actor]}
       \cup {[type |-> "actors", name |-> batches[i].resultFiles[j].actor_name] :
                j \in 1..Len(batches[i].resultFiles)} : i \in 1..Len(batches)}

\* the requested pairs with a non-empty name that the given categories lack
Missing(batches, cats) ==
    {p \in Requested(batches) : p.name # "" /\ RowsOf(cats, p.type, p.name) = {}}

PairsOf(rows) == {[type |-> c.type, name |-> c.name] : c \in rows}

\* the call of addAssets: the rows it is going to insert are the missing pairs,
\* each once, and no insert is issued when there is none
C9_Computed ==
    \A u \in BagToSet(uploads') :
       uploads' = Put(uploads, u) =>
          /\ {[type |-> u.cats[i].type, name |-> u.cats[i].name] : i \in 1..Len(u.cats)}
                = Missing(u.batches, closure.categories)
          /\ Len(u.cats) = Cardinality(Missing(u.batches, closure.categories))
          /\ (u.pc = "categories") = (Missing(u.batches, closure.categories) # {})

\* the category insert of the call: the rows that appear in the store are the
\* pairs computed at the call, one row each
C9_Inserted ==
    \A u \in BagToSet(uploads) :
       (u.pc = "categories" /\ Ended(uploads, u) /\ tblCategories' # tblCategories) =>
          LET new == tblCategories' \ tblCategories
          IN  /\ tblCategories \subseteq tblCategories'
              /\ \A i \in 1..Len(u.cats) :
                    Cardinality(RowsOf(new, u.cats[i].type, u.cats[i].name)) = 1
              /\ \A c \in new : \E i \in 1..Len(u.cats) :
                    u.cats[i].type = c.type /\ u.cats[i].name = c.name

\* C9: within one addAssets call the category rows inserted contain a (kind,
\* name) pair, exactly once, if and only if the name is non-empty, some source
\* or result file of the list requests it under that kind, and the local
\* categories of that kind lack it; a name requested several times yields one
\* row.
C9_Reconciled == [][C9_Computed /\ C9_Inserted]_vars

\* a list of two batches naming performer Bo four times has been ingested up
\* to its uploads: one row for Bo under each of the two kinds, none for the
\* movement that existed, none for the empty name
C9_Witness ==
    \E u \in BagToSet(uploads) :
       /\ u.pc = "upload"
       /\ Len(u.batches) = 2
       /\ \A i \in 1..2 : /\ u.batches[i].sourceFile.performance_actor = "Bo"
                          /\ Len(u.batches[i].resultFiles) = 1
       /\ PairsOf(CreatedCategories)
             = {[type |-> "performanceActors", name |-> "Bo"], [type |-> "actors", name |-> "Bo"]}
       /\ Cardinality(CreatedCategories) = 2

\* C10: once an addAssets call has succeeded, every non-empty performance_actor
\* of its source files is a category under performanceActors and under actors,
\* and under neither kind is there a second row of that name.
C10_BothKindsOnce ==
    [][\A u \in BagToSet(uploads) :
          (u.pc = "reload" /\ Ended(uploads, u)) =>
             \A i \in 1..Len(u.batches) :
                LET performer == u.batches[i].sourceFile.performance_actor
                IN  performer # "" =>
                       /\ Cardinality(RowsOf(tblCategories, "performanceActors", performer)) = 1
                       /\ Cardinality(RowsOf(tblCategories, "actors", performer)) = 1]_vars

\* the positions that bound the comma-separated items of a text
Cuts(text) == {0, Len(text) + 1} \cup {i \in 1..Len(text) : text[i] = ","}

\* the item that starts after the cut p
ItemAt(text, p) ==
    LET q == CHOOSE c \in Cuts(text) : c > p /\ \A d \in Cuts(text) : d > p => c <= d
    IN  SubSeq(text, p + 1, q - 1)

\* an item without the white space around it
Stripped(item) ==
    LET solid == {i \in 1..Len(item) : item[i] \notin Whitespace}
    IN  IF solid = {} THEN <<>>
        ELSE SubSeq(item, CHOOSE i \in solid : \A j \in solid : i <= j,
                          CHOOSE i \in solid : \A j \in solid : i >= j)

\* tags are the items of the text, stripped, the empty ones dropped, in order
TagsOf(text, tags) ==
    LET kept == {p \in Cuts(text) \ {Len(text) + 1} : Stripped(ItemAt(text, p)) # <<>>}
    IN  /\ Len(tags) = Cardinality(kept)
        /\ \A p \in kept :
              tags[Cardinality({k \in kept : k < p}) + 1] = Stripped(ItemAt(text, p))
        /\ (text = <<"a", ",", " ", "b">>) => tags = << <<"a">>, <<"b">> >>

\* the staged files of a list: (i, 0) is the source of batch i, (i, j) its
\* j-th result file
Slots(batches) ==
    UNION {{<<i, j>> : j \in 0..Len(batches[i].resultFiles)} : i \in 1..Len(batches)}

\* what the claim says of the row of a staged file
RowAsClaimed(batches, slot, row) ==
    LET source == batches[slot[1]].sourceFile
    IN  /\ row.actor_name = IF slot[2] = 0 THEN source.performance_actor
                                            ELSE batches[slot[1]].resultFiles[slot[2]].actor_name
        /\ row.movement_type = source.movement_type
        /\ row.performance_actor = source.performance_actor
        /\ row.take_number = source.take_number
        /\ TagsOf(source.tags, row.tags)
        /\ row.is_favorite = FALSE

\* C11: the asset insert of addAssets adds, in one step, exactly one row per
\* staged file: a source row with actor_name = performance_actor, a result row
\* with its own actor_name and the movement_type, performance_actor,
\* take_number and tags of its batch's source; the tags are the comma-separated
\* items trimmed, empty items dropped; is_favorite is false.
C11_OneRowPerFile ==
    [][\A u \in BagToSet(uploads) :
          (u.pc = "insert" /\ Ended(uploads, u) /\ tblVideos' # tblVideos) =>
             LET new == tblVideos' \ tblVideos
             IN  /\ tblVideos \subseteq tblVideos'
                 /\ Cardinality(new) = Cardinality(Slots(u.batches))
                 /\ \E f \in [Slots(u.batches) -> new] :
                       /\ \A x, y \in Slots(u.batches) : f[x] = f[y] => x = y
                       /\ \A x \in Slots(u.batches) : RowAsClaimed(u.batches, x, f[x])]_vars

\* a batch with tags "a, b" and one result file has been inserted: two rows,
\* tags ["a", "b"] on both, the source row performed by Bo
C11_Witness ==
    /\ Cardinality(tblVideos) = 2
    /\ \A v \in tblVideos : v.tags = << <<"a">>, <<"b">> >> /\ v.performance_actor = "Bo"
    /\ \E v, w \in tblVideos : v.file_path # w.file_path

\* -------------------------------------------------------------------
\* asset deletion
\* -------------------------------------------------------------------
\* C12: when a deleteAsset of an asset with a file_path has run to the end of
\* its try block (the row delete accepted, the object removal returned), the
\* asset's row is not in the store and its object is not in the object store.
C12_RowAndObjectGone ==
    [][\A m \in BagToSet(muts) :
          (m.kind = "deleteAsset" /\ m.pc = "remove" /\ Ended(muts, m)) =>
             /\ \A v \in tblVideos' : v.id \notin m.ids
             /\ \A a \in m.cap : a.file_path \notin bucket']_vars

\* the row delete of a deleteMultipleAssets is accepted: all the rows of the
\* ids go in that one step, no object is touched yet, and one object removal
\* is issued
C13_Rows ==
    \A m \in BagToSet(muts) :
       (m.kind = "deleteMultipleAssets" /\ m.pc = "delete" /\ Ended(muts, m)
          /\ nFailed' = nFailed) =>
          /\ tblVideos' = {v \in tblVideos : v.id \notin m.ids}
          /\ bucket' = bucket
          /\ \E m2 \in BagToSet(muts') :
                /\ muts' = Step(muts, m, m2)
                /\ m2.pc = "remove" /\ m2.ids = m.ids /\ m2.cap = m.cap

\* the object removal returns: it was the only one, and if it was carried out
\* the objects removed are the N files of the N assets
C13_Objects ==
    \A m \in BagToSet(muts) :
       (m.kind = "deleteMultipleAssets" /\ m.pc = "remove" /\ Ended(muts, m)) =>
          LET paths == {a.file_path : a \in {x \in m.cap : x.id \in m.ids}}
          IN  /\ muts' = Take(muts, m)
              /\ Cardinality(paths) = Cardinality(m.ids)
              /\ bucket' = bucket \/ bucket' = bucket \ paths

\* C13: deleteMultipleAssets with N ids removes the N rows with one
\* delete-by-id-list call, and then issues exactly one object-removal call,
\* whose path list is the N file paths of those assets.
C13_OneBatchedRemoval == [][C13_Rows /\ C13_Objects]_vars

\* one call, of deleteMultipleAssets with both assets, has finished: both rows
\* and both objects are gone
C13_Witness ==
    /\ calls = 1 /\ muts = EmptyBag /\ nFailed = 0
    /\ tblVideos = {}
    /\ A1.file_path \notin bucket /\ A2.file_path \notin bucket


\* -------------------------------------------------------------------
\* claims about category management
\* -------------------------------------------------------------------
\* the asset field of a kind, as the claims name it
FieldOf(type) ==
    IF type = "actors" THEN "actor_name"
    ELSE IF type = "movements" THEN "movement_type"
    ELSE "performance_actor"

\* `after` is `before` with `value` in `field` of exactly the rows that had
\* `name` there, every other row and every other field as before
Rewritten(before, after, field, name, value) ==
    /\ Cardinality(after) = Cardinality(before)
    /\ \A v \in before :
          \E w \in after :
             /\ w.id = v.id
             /\ DOMAIN w = DOMAIN v
             /\ \A k \in DOMAIN v \ {field} : w[k] = v[k]
             /\ w[field] = IF v[field] = name THEN value ELSE v[field]

\* C14: when the second call of a renameCategoryItem (the update of the
\* assets) succeeds, every asset whose field for the category's kind equalled
\* the old name has newName in that field, and no other asset and no other
\* field is changed.
C14_RenameCascades ==
    [][\A m \in BagToSet(muts) :
          (m.kind = "renameCategoryItem" /\ m.pc = "cascade" /\ Ended(muts, m)
             /\ nFailed' = nFailed) =>
             Rewritten(tblVideos, tblVideos', FieldOf(m.cap.cat.type),
                       m.cap.cat.name, m.cap.name)]_vars

\* the movement Walk has been renamed to Run: the asset that moved by Walk
\* moves by Run, the asset whose actor is called Walk is as it was
C14_Witness ==
    /\ muts = EmptyBag /\ nFailed = 0
    /\ Category(2, "movements", "Run") \in tblCategories
    /\ tblVideos = {[V1 EXCEPT !.movement_type = "Run"], V2}

\* C15: when the second call of a deleteCategoryItem (the update of the
\* assets) succeeds, the category's row is not in the store, every asset whose
\* field for the category's kind equalled the category's name has
\* "Uncategorized" in that field, and no other asset or field is changed.
C15_DeleteCascades ==
    [][\A m \in BagToSet(muts) :
          (m.kind = "deleteCategoryItem" /\ m.pc = "cascade" /\ Ended(muts, m)
             /\ nFailed' = nFailed) =>
             /\ \A c \in tblCategories' : c.id # m.cap.cat.id
             /\ Rewritten(tblVideos, tblVideos', FieldOf(m.cap.cat.type),
                          m.cap.cat.name, "Uncategorized")]_vars

\* the actor Bo has been deleted: the asset of actor Bo is uncategorized, its
\* performer is still Bo, and the other asset is as it was
C15_Witness ==
    /\ muts = EmptyBag /\ nFailed = 0
    /\ tblCategories = {K2, K3}
    /\ tblVideos = {[V1 EXCEPT !.actor_name = "Uncategorized"], V2}


\* C16: no two rows of categories of the same kind have the same name
\* (compared case-sensitively).
C16_UniqueNames ==
    \A c1 \in tblCategories : \A c2 \in tblCategories :
       (c1.type = c2.type /\ c1.name = c2.name) => c1.id = c2.id


\* the name is empty or consists of whitespace only
AllSpaces(name) == \A i \in 1..Len(Chars(name)) : Chars(name)[i] = " "

\* the arguments of the invocation fail validation: an addCategoryItem with an
\* empty or whitespace-only name, a renameCategoryItem to a name that a
\* category of the same kind has in the categories the handler sees
Invalid(m) ==
    \/ m.kind = "addCategoryItem" /\ AllSpaces(m.cap.name)
    \/ /\ m.kind = "renameCategoryItem"
       /\ \E c \in closure.categories :
             c.type = m.cap.cat.type /\ c.name = m.cap.name

\* C17: an addCategoryItem with an empty or whitespace-only name and a
\* renameCategoryItem to a name that already exists in the same kind are
\* rejected when they are called: the call and the handler's return change
\* neither the remote store nor the local collections, and no remote call
\* (no insert, update or reload) is issued.
C17_ValidationFirst ==
    [][/\ \A m \in BagToSet(muts') :
             (calls' = calls + 1 /\ Started(muts, m) /\ Invalid(m)) =>
                /\ m.pc = "rejected"
                /\ UNCHANGED <<remote, local, fetches>>
       /\ \A m \in BagToSet(muts) :
             (m.pc = "rejected" /\ Ended(muts, m)) =>
                /\ muts' = Take(muts, m)
                /\ UNCHANGED <<remote, local, fetches>>]_vars

\* a rename of the actor Bo to Walk, the name of another actor, and an add of
\* a name of one space have both been rejected; nothing else has happened
C17_Witness ==
    /\ calls = 2 /\ nFailed = 0 /\ fetches = EmptyBag
    /\ tblCategories = {K1, K2, K3} /\ categories = {K1, K2, K3}
    /\ \E type \in CategoryTypes :
          muts = SetToBag({Mut("renameCategoryItem", "rejected", {1}, [cat |-> K1, name |-> "Walk"]),
                           Mut("addCategoryItem", "rejected", {}, [type |-> type, name |-> " "])})


\* -------------------------------------------------------------------
\* claims about failures during an ingestion
\* -------------------------------------------------------------------
\* the object paths of the staged files of an ingestion
PathsOf(u) == {u.rows[i].file_path : i \in 1..Len(u.rows)}

\* C18: when the category insert of an addAssets fails, the ingestion ends
\* there: no file of it is uploaded (no object of its paths is in the object
\* store, and the object store is as before) and no asset row is inserted.
C18_AbortsBeforeUpload ==
    [][\A u \in BagToSet(uploads) :
          (u.pc = "categories" /\ Ended(uploads, u) /\ tblCategories' = tblCategories) =>
             /\ uploads' = Take(uploads, u)
             /\ bucket' = bucket /\ PathsOf(u) \cap bucket' = {}
             /\ tblVideos' = tblVideos
             /\ \A v \in tblVideos' : v.file_path \notin PathsOf(u)]_vars

\* an ingestion of two batches with a result file each (four files, and the
\* actor Bo to create) has ended with the categories as they were: nothing
\* was uploaded, no row inserted
C18_Witness ==
    /\ calls = 1 /\ nextUuid = 5 /\ uploads = EmptyBag /\ ~loading
    /\ tblCategories = UploadCategories
    /\ bucket = {} /\ tblVideos = {}

\* C19: when the batch insert of the asset rows of an addAssets fails, the
\* categories table is left as it is, the rows this ingestion inserted into it
\* included, the object store is left as it is, no reload is started and the
\* ingestion ends.
C19_NoRollback ==
    [][\A u \in BagToSet(uploads) :
          (u.pc = "insert" /\ Ended(uploads, u) /\ tblVideos' = tblVideos) =>
             /\ tblCategories' = tblCategories
             /\ \A i \in 1..Len(u.cats) :
                   \E c \in tblCategories' \ UploadCategories :
                      c.type = u.cats[i].type /\ c.name = u.cats[i].name
             /\ bucket' = bucket
             /\ fetches' = fetches
             /\ uploads' = Take(uploads, u)]_vars

\* an ingestion that created the performer Bo has ended without any asset
\* row and without a reload: the category rows are still there
C19_Witness ==
    /\ calls = 1 /\ uploads = EmptyBag /\ fetches = EmptyBag /\ ~loading
    /\ tblVideos = {} /\ assets = {}
    /\ Category(10, "performanceActors", "Bo") \in tblCategories
    /\ categories = UploadCategories

\* the uploads of an ingestion have returned, some with an error or none:
\* the ingestion goes on to the batch insert with all its rows
C20_Proceeds ==
    \A u \in BagToSet(uploads) :
       (u.pc = "upload" /\ Ended(uploads, u)) =>
          uploads' = Step(uploads, u, [u EXCEPT !.pc = "insert"])

\* the batch insert is accepted: a file whose object is not in the object
\* store has its row too, with the public URL of its path
C20_Inserted ==
    \A u \in BagToSet(uploads) :
       (u.pc = "insert" /\ Ended(uploads, u) /\ tblVideos' # tblVideos) =>
          \A p \in PathsOf(u) \ bucket :
             \E v \in tblVideos' \ tblVideos :
                v.file_path = p /\ v.video_url = PublicUrlPrefix \o p

\* C20: addAssets does not inspect the outcome of the uploads: a file whose
\* upload returned an error (its object is not in the object store) still
\* gets its public URL and its asset row.
C20_UploadsUnchecked == [][C20_Proceeds /\ C20_Inserted]_vars

\* an asset row whose file_path has no object in the object store
C20_Witness ==
    /\ uploads = EmptyBag
    /\ \E v \in tblVideos : v.file_path \notin bucket


\* -------------------------------------------------------------------
\* claims about the deletion and promotion of generation tasks
\* -------------------------------------------------------------------
\* the task of the id as the handler's closure holds it
Shown(id) == {t \in closure.tasks : t.id = id}

\* the call of deleteGenerationTask: the task leaves the local collection in
\* the step of the call, in which the remote side is untouched, and the first
\* remote call is the cancel exactly when the task has a job id and is
\* PENDING or RUNNING
C21_Call ==
    \A m \in BagToSet(muts') :
       (m.kind = "deleteGenerationTask" /\ calls' = calls + 1 /\ Started(muts, m)) =>
          /\ \A t \in generationTasks' : t.id \notin m.ids
          /\ UNCHANGED remote
          /\ m.pc \in {"cancel", "delete"}
          /\ m.pc = "cancel" <=>
                \E id \in m.ids : \E t \in Shown(id) :
                   /\ t.runway_task_id # NULL
                   /\ t.status \in {"PENDING", "RUNNING"}

\* the cancel has answered, with any outcome: the local collections and the
\* task's row are as before and the row delete is the next call
C21_Cancelled ==
    \A m \in BagToSet(muts) :
       (m.kind = "deleteGenerationTask" /\ m.pc = "cancel" /\ Ended(muts, m)) =>
          /\ UNCHANGED <<local, tblTasks, fetches>>
          /\ muts' = Step(muts, m, [m EXCEPT !.pc = "delete"])

\* the row delete is accepted: no row of the id is left
C21_Deleted ==
    \A m \in BagToSet(muts) :
       (m.kind = "deleteGenerationTask" /\ m.pc = "delete" /\ Ended(muts, m)
          /\ nFailed' = nFailed) =>
          \A t \in tblTasks' : t.id \notin m.ids

\* C21: deleteGenerationTask removes the task from the local collection before
\* any remote call; it sends a cancel for the job exactly when the task has a
\* runway_task_id and its status is PENDING or RUNNING; whatever the cancel's
\* outcome the task stays removed locally and the row delete is issued.
C21_DeleteTask == [][C21_Call /\ C21_Cancelled /\ C21_Deleted]_vars

\* the cancel of job-1 has answered without cancelling the job: the running
\* task is not in the local collection and its row delete is in flight
C21_Witness ==
    /\ runway["job-1"] = "running"
    /\ G1 \notin generationTasks
    /\ G1 \in tblTasks
    /\ Mut("deleteGenerationTask", "delete", {1}, {G1}) \in BagToSet(muts)


\* the objects the input URLs of a task refer to
InputsOf(t) ==
    {p \in bucket : getPublicUrl(p) \in {t.input_character_url, t.input_reference_video_url}}

\* C22: when a deleteGenerationTask of a task with both input URLs has made
\* its object-removal call, neither object those URLs refer to is in the
\* object store.
C22_InputsRemoved ==
    [][\A m \in BagToSet(muts) :
          (m.kind = "deleteGenerationTask" /\ m.pc = "remove" /\ Ended(muts, m)) =>
             \A t \in m.cap : InputsOf(t)' = {}]_vars


\* a promotion ends in its catch block: after the fetch (and probe), after the
\* upload, or after the insert without a new asset row
SaveFails(m) ==
    /\ m.kind = "saveGeneratedVideoToGallery"
    /\ Ended(muts, m)
    /\ \/ m.pc \in {"fetch", "upload"} /\ nFailed' # nFailed
       \/ m.pc = "insert" /\ tblVideos' = tblVideos

\* C23: when a saveGeneratedVideoToGallery fails while fetching or probing the
\* output video, uploading it or inserting the asset row, the task's store row
\* and the local records are as before, no cancel reaches the job API, no
\* object is removed, no deletion of the task is started, and the task can be
\* promoted again.
C23_FailureLeavesTask ==
    [][\A m \in BagToSet(muts) :
          SaveFails(m) =>
             /\ UNCHANGED <<tblTasks, local, runway, fetches>>
             /\ bucket \subseteq bucket'
             /\ muts' = Take(muts, m)
             /\ (m.cap.task \in generationTasks => m.cap.task \in generationTasks')]_vars

\* a promotion of the second task has failed and the same promotion is in
\* flight again; the task is where it was
C23_Witness ==
    /\ calls = 2 /\ nFailed = 1
    /\ G2 \in tblTasks /\ G2 \in generationTasks
    /\ InputObjects(G2) \subseteq bucket
    /\ \E m \in BagToSet(muts) :
          m.kind = "saveGeneratedVideoToGallery" /\ m.pc = "fetch" /\ m.cap.task = G2


\* C24: the asset row inserted by saveGeneratedVideoToGallery has
\* performance_actor, movement_type and take_number of the task's
\* initial_metadata, actor_name and tags of the final metadata, the measured
\* dimensions as resolution, is_favorite = false, and only fields of the table
\* videos.
C24_PromotedRow ==
    [][\A m \in BagToSet(muts) :
          (m.kind = "saveGeneratedVideoToGallery" /\ m.pc = "insert" /\ Ended(muts, m)
             /\ tblVideos' # tblVideos) =>
             \E row \in tblVideos' \ tblVideos :
                /\ tblVideos' = tblVideos \cup {row}
                /\ row.performance_actor = m.cap.task.initial_metadata.performance_actor
                /\ row.movement_type = m.cap.task.initial_metadata.movement_type
                /\ row.take_number = m.cap.task.initial_metadata.take_number
                /\ row.actor_name = m.cap.meta.actor_name
                /\ row.tags = m.cap.meta.tags
                /\ row.resolution \in Dimensions
                /\ row.is_favorite = FALSE
                /\ DOMAIN row \subseteq VideoColumns]_vars


C26_FieldsFollowStatus ==
    \A t \in tblTasks \cup generationTasks :
       /\ t.output_video_url # NULL => t.status = "SUCCEEDED"
       /\ t.error_message # NULL => t.status = "FAILED"


\* -------------------------------------------------------------------
\* claims about the submission of generation jobs
\* -------------------------------------------------------------------
\* C27: a row of generation_tasks is created only by a submission whose job
\* the job API has accepted, with status PENDING and the returned job id as
\* runway_task_id; a submission whose upload or whose job submission fails
\* ends without a row.
C27_RowAfterAcceptance ==
    [][/\ tblTasks' # tblTasks =>
             \E m \in BagToSet(muts) :
                /\ m.kind = "handleStartGeneration" /\ m.pc = "create" /\ Ended(muts, m)
                /\ m.cap.job # NULL /\ m.cap.job \in DOMAIN runway
                /\ \E row \in tblTasks' \ tblTasks :
                      /\ tblTasks' = tblTasks \cup {row}
                      /\ row.status = "PENDING"
                      /\ row.runway_task_id = m.cap.job
       /\ \A m \in BagToSet(muts) :
             (m.kind = "handleStartGeneration" /\ m.pc \in {"upload", "start"}
                /\ Ended(muts, m) /\ nFailed' # nFailed) =>
                /\ UNCHANGED <<tblTasks, generationTasks>>
                /\ muts' = Take(muts, m)]_vars

\* one submission has failed and left no row; the next one was accepted as
\* job-1 and its row is PENDING with that id
C27_Witness ==
    /\ calls = 2 /\ nFailed = 1 /\ muts = EmptyBag
    /\ DOMAIN runway = {"job-1"}
    /\ Cardinality(tblTasks) = 1
    /\ \A t \in tblTasks : t.status = "PENDING" /\ t.runway_task_id = "job-1"

\* C28: at every moment at most one poll interval is active, whatever the
\* number of re-created poll callbacks, and none is active while the
\* generation view is not mounted
C28_OnePollTimer ==
    /\ BagCardinality(generator.intervals) <= 1
    /\ ~generator.mounted => generator.intervals = EmptyBag

\* the view has been torn down while a tick is in flight that was fired by
\* the interval of a re-created callback, over a task list that is not the
\* first one loaded
C28_Witness ==
    /\ ~generator.mounted
    /\ generator.intervals = EmptyBag
    /\ \E k \in BagToSet(ticks) : Head(k.queue) # P1

\* C29: a renameCategoryItem or deleteCategoryItem that ends on a rejected
\* remote call, the cascade update after the category row was changed
\* included, starts a full reload
C29_FailureReloads ==
    [][\A m \in BagToSet(muts) :
          (/\ m.kind \in {"renameCategoryItem", "deleteCategoryItem"}
           /\ Ended(muts, m) /\ nFailed' # nFailed) =>
              \E f \in BagToSet(fetches') : Started(fetches, f)]_vars

\* C30: the proxy answers OPTIONS with 204 without a request to the external
\* service, and a POST, GET or DELETE that the external service has answered
\* is answered with the external status, and for POST and GET with the
\* external JSON body
C30_ProxyEchoes ==
    [][(proxy'.pc = "done" /\ (proxy.pc = "upstream" \/ calls' # calls)) =>
          /\ proxy'.req.method = "OPTIONS" =>
                /\ proxy'.resp.status = 204
                /\ proxy'.sent = proxy.sent /\ proxy.pc # "upstream"
          /\ \A ext \in proxy'.ext :
                proxy'.req.method \in {"POST", "GET", "DELETE"} =>
                   /\ proxy'.resp.status = ext.status
                   /\ proxy'.req.method \in {"POST", "GET"} =>
                         /\ JsonParse(ext.body) # SyntaxError
                         /\ proxy'.resp.body = JsonStringify(JsonParse(ext.body))]_vars

\* the optimistic mutations
Optimistic ==
    {"deleteAsset", "deleteMultipleAssets", "updateAsset", "toggleFavorite",
     "deleteGenerationTask"}

\* the local collections as, ts show the change of a deletion or an edit m
Applied(m, as, ts) ==
    CASE m.kind \in {"deleteAsset", "deleteMultipleAssets"} ->
            \A a \in as : a.id \notin m.ids
      [] m.kind = "deleteGenerationTask" ->
            \A t \in ts : t.id \notin m.ids
      [] m.kind = "updateAsset" ->
            \A a \in as : a.id \in m.ids => a \in m.cap
      [] OTHER -> TRUE

\* C31: the step in which an optimistic mutation is called applies its change
\* to the local collection and leaves the remote side untouched; the
\* mutation's remote calls take effect in later steps only
C31_LocalFirst ==
    [][/\ \A m \in BagToSet(muts') :
             (m.kind \in Optimistic /\ Started(muts, m) /\ calls' # calls) =>
                /\ UNCHANGED remote
                /\ m.kind # "toggleFavorite" => Applied(m, assets', generationTasks')
                /\ m.kind = "toggleFavorite" =>
                      \A a \in assets : a.id \in m.ids => Flip(a) \in assets' /\ a \notin assets'
       /\ remote' # remote => calls' = calls]_vars

\* an edit of asset 1 is shown locally while its update is still to be
\* answered and the store holds the asset as it was
C31_Witness ==
    \E m \in BagToSet(muts) :
       /\ m.kind = "updateAsset" /\ m.pc = "update" /\ m.ids = {1}
       /\ m.cap \subseteq assets
       /\ A1 \in tblVideos

\* C32: a stored task whose status is SUCCEEDED or FAILED is left as it is by
\* every write of a poll tick, the status path and the catch path alike: its
\* status, output_video_url and error_message stay
C32_TerminalStable ==
    [][ticks' # ticks =>
          \A t \in tblTasks :
             t.status \in {"SUCCEEDED", "FAILED"} =>
                \A u \in tblTasks' :
                   u.id = t.id =>
                      /\ u.status = t.status
                      /\ u.output_video_url = t.output_video_url
                      /\ u.error_message = t.error_message]_vars

IdsOf(rows) == {r.id : r \in rows}

\* C33: an asset or a task that has been removed from the local collection
\* and whose row the store has deleted does not come back into the local
\* collection, whatever reloads complete around the deletion
C33_NoReappearance ==
    [][/\ \A a \in assets' : a.id \in IdsOf(assets) \/ a.id \in IdsOf(tblVideos')
       /\ \A t \in generationTasks' :
             t.id \in IdsOf(generationTasks) \/ t.id \in IdsOf(tblTasks')]_vars

\* C34: when every toggleFavorite call so far has finished and every remote
\* update was accepted, each local asset carries the is_favorite stored on
\* the server
C34_TogglesAgree ==
    (calls > 0 /\ nFailed = 0 /\ muts = EmptyBag /\ fetches = EmptyBag) =>
        \A a \in assets : \A v \in tblVideos :
           v.id = a.id => v.is_favorite = a.is_favorite

\* the asset rows made of task t: a promoted row carries the
\* character_asset_name of the task's initial_metadata
PromotedFrom(t) ==
    {v \in tblVideos :
        /\ "character_asset_name" \in DOMAIN v
        /\ v.character_asset_name = t.initial_metadata.character_asset_name}

\* C35: at most one asset row is made of each generation task, whatever
\* saveGeneratedVideoToGallery invocations there are for it
C35_PromotedOnce ==
    \A t \in {G2, G3} : Cardinality(PromotedFrom(t)) <= 1

\* -------------------------------------------------------------------
\* SpecReload: reloads, some of whose selects fail, over a loaded view
\* -------------------------------------------------------------------
InitReload == Loaded({V1, V2}, {K1, K2}, {G2}, {V1.file_path}, <<>>, ReloadCalls)

NextReload ==
    \/ \E f \in BagToSet(fetches) : selectVideos(f)
    \/ \E f \in BagToSet(fetches) : selectCategories(f)
    \/ \E f \in BagToSet(fetches) : selectTasks(f)
    \/ \E f \in BagToSet(fetches) : selectError(f)
    \/ \E f \in BagToSet(fetches) : fetchAllDataDone(f)
    \/ refreshData
    \/ Render

SpecReload == InitReload /\ [][NextReload]_vars

\* C36: a reload that completes with an error on any of its three selects
\* sets all three local collections to empty
C36_FailedReloadEmpties ==
    [][\A f \in BagToSet(fetches) :
          (FetchAnswered(f) /\ Ended(fetches, f) /\ FetchFailed(f)) =>
             assets' = {} /\ categories' = {} /\ generationTasks' = {}]_vars

\* a reload whose select of categories failed has completed over a loaded
\* view: the three collections are empty while the store holds rows of each
C36_Witness ==
    /\ calls = 1 /\ fetches = EmptyBag
    /\ assets = {} /\ categories = {} /\ generationTasks = {}
    /\ tblVideos # {} /\ tblCategories # {} /\ tblTasks # {}

\* C37: once no submission is in flight, every job the job API has accepted
\* has a row of generation_tasks carrying its id
C37_AcceptedJobsTracked ==
    (\A m \in BagToSet(muts) : m.kind # "handleStartGeneration") =>
        \A job \in DOMAIN runway : \E t \in tblTasks : t.runway_task_id = job

\* C38: a deleteAsset or deleteMultipleAssets whose row delete is rejected
\* ends there, with no object removed and no removal issued; and a removal
\* of objects by such a deletion finds the rows of its ids deleted
C38_ObjectsAfterRows ==
    [][\A m \in BagToSet(muts) :
          (IsAssetDelete(m) /\ Ended(muts, m)) =>
             /\ (m.pc = "delete" /\ nFailed' # nFailed) =>
                   /\ bucket' = bucket
                   /\ muts' = Take(muts, m)
             /\ bucket' # bucket =>
                   /\ m.pc = "remove"
                   /\ \A v \in tblVideos' : v.id \notin m.ids]_vars

\* the row delete of a deletion was rejected: the deletion has ended, its
\* reload is in flight, and both rows and all objects are still stored
C38_Witness ==
    /\ nFailed = 1 /\ muts = EmptyBag
    /\ \E f \in BagToSet(fetches) : f.why \in {"deleteAsset", "deleteMultipleAssets"}
    /\ tblVideos = {A1, A2}
    /\ bucket = SyncBucket

\* C39: with a signed-in user, whenever no fetchAllData and no addAssets is
\* in flight the loading flag is false
C39_LoadingCleared ==
    (fetches = EmptyBag /\ uploads = EmptyBag) => loading = FALSE

\* two ingestions have been called and have ended, one of them on a rejected
\* insert and one with its reload: nothing is in flight and the flag is false
C39_Witness ==
    /\ calls = 2 /\ fetches = EmptyBag /\ uploads = EmptyBag
    /\ loading = FALSE
    /\ Cardinality(tblVideos) = 1 /\ Cardinality(bucket) = 2

====
